---- MODULE Spec2Model ----
(***************************************************************************)
(* The spider scheduler of quant-data-sys: SpiderService over AsyncQueue   *)
(* and the url_queue table.                                                *)
(*                                                                         *)
(* Every coroutine (queue worker, caller of enqueue_url, caller of stop)   *)
(* is a process; one action is the code a coroutine runs between two       *)
(* awaits that really suspend it.  A database statement takes effect in    *)
(* the step that issues it; what it returned is used in the next step, so  *)
(* a row read by one coroutine can be rewritten by another before the      *)
(* reader acts on it.  The ORM writes, at commit, only the attributes      *)
(* whose assigned value differs from the loaded one (unit of work), while  *)
(* the Core update() statements write every column they name.              *)
(***************************************************************************)
EXTENDS Integers, Sequences, FiniteSets, TLC

\* ---------------------------------------------------------------- bounds
\* URL QueueItems created in one behaviour
MaxPushes == 3
\* length of the argument of _interleave_links_by_domain when it is checked alone
MaxLen == 4
\* largest max_retries of the ExponentialBackoffHandlers that are followed
MaxRetries == 2
\* most div wrappers around the paragraph of a chain document
MaxDepth == 3
\* most characters of a url path given to _is_probable_article_slug
MaxPathLen == 4

\* ------------------------------------------------------ program constants
\* SpiderService(max_workers=..., max_queue_size=...)
max_workers == 2
max_queue_size == 2
\* "processing_count <= -5"
PoisonThreshold == -5
\* QueueItem(priority=999999, data=None)
SentinelPriority == 999999
\* get_priority: -10 for a high-priority pattern
HighPriority == -10

\* data=None of a sentinel
NoneData == -1
\* a URL that LinkFilterService.should_exclude_url excludes ("/tag/...")
ExcludedUrl == 0

\* URL 1 matches a high-priority pattern ("/business/..."), URL 2 matches none
Urls == {1, 2}
\* a URL that ArticlePriorityPolicy.should_exclude_url excludes ("/sports/...")
PolicyExcludedUrl == 3
AllUrls == Urls \cup {ExcludedUrl, PolicyExcludedUrl}
\* the URLs that requests and scraped pages name
RequestUrls == Urls \cup {ExcludedUrl}
\* the same where an excluded section of the site is named too
PolicyUrls == {2, ExcludedUrl, PolicyExcludedUrl}
Workers == 1..max_workers
\* the coroutine of a request that calls enqueue_url
Callers == {101}
Procs == Workers \cup Callers
\* the priority argument of enqueue_url: the route passes the default
CallerPriorities == {0}

VARIABLES
  url_queue,   \* the url_queue table: url -> row
  results,     \* number of scrape_results rows (each with a completed job) per url
  queue,       \* AsyncQueue.queue: the QueueItems in the heap
  counter,     \* the module-level _counter of async_queue.py
  running,     \* SpiderService.running
  qrunning,    \* AsyncQueue.running
  pc,          \* position of every worker and caller
  url,         \* the url a worker processes / a caller admits
  prio,        \* the priority a caller's admission carries
  loaded,      \* the row as loaded by the process's last select
  links,       \* a worker's remaining ordered_links
  ret,         \* what a caller's last enqueue_url returned (False: with its reason)
  spc,         \* position of the coroutine that calls stop()
  left,        \* sentinels stop() still has to put
  work,        \* a worker's _process_url frame: the count it read, its scrape_jobs row
  interleave,  \* a call of _interleave_links_by_domain: argument and result
  backoff,     \* an ExponentialBackoffHandler and the frame of its handle()
  unit         \* an http client or an html cleaner call followed on its own

\* the scheduler: services, queue and table
svars == <<url_queue, results, queue, counter, running, qrunning, pc, url,
           prio, loaded, links, ret, spc, left, work>>

\* the functions that are also checked on their own
fvars == <<interleave, backoff, unit>>

vars == <<url_queue, results, queue, counter, running, qrunning, pc, url,
          prio, loaded, links, ret, spc, left, work, interleave, backoff, unit>>

\* ------------------------------------------------------------ url_queue
AbsentRow == [status |-> "absent", processing_count |-> 0, priority |-> 0]

\* the insert of an admission leaves no row behind
NewRowMutant(p) == AbsentRow

NewRow(p) == [status |-> "pending", processing_count |-> 0, priority |-> p]

\* the unique constraint on url_queue.url
UniqueViolation(u) == url_queue[u].status # "absent"

\* the insert that lost the race overwrites the winner's row
IntegrityErrorRollbackMutant(row, p) == NewRow(p)

\* "except IntegrityError: await session.rollback()": the failed insert leaves
\* the row of the winner as it is
IntegrityErrorRollback(row, p) == row

\* existing.status = "pending"; existing.priority = priority; commit
AdmissionUpdate(row, ld, p) ==
  [row EXCEPT !.status = IF ld.status # "pending" THEN "pending" ELSE @,
              !.priority = IF ld.priority # p THEN p ELSE @]

\* url_record.status = "processing"; commit
ProcessingUpdate(row, ld) ==
  [row EXCEPT !.status = IF ld.status # "processing" THEN "processing" ELSE @]

\* the success update leaves processing_count as it is
DoneUpdateMutant(row) ==
  IF row.status = "absent" THEN row
  ELSE [row EXCEPT !.status = "done"]

\* update(UrlQueue).values(status="done", processing_count=1, ...)
DoneUpdate(row) ==
  IF row.status = "absent" THEN row
  ELSE [row EXCEPT !.status = "done", !.processing_count = 1]

\* the failure update adds one instead of subtracting one
FailedUpdateMutant(row) ==
  IF row.status = "absent" THEN row
  ELSE [row EXCEPT !.status = "failed", !.processing_count = @ + 1]

\* update(UrlQueue).values(processing_count=processing_count - 1, status="failed", ...)
FailedUpdate(row) ==
  IF row.status = "absent" THEN row
  ELSE [row EXCEPT !.status = "failed", !.processing_count = @ - 1]

IsDone(row) == row.status = "done"

\* the lookup of an admission forgets the "already done" test
ExistingIsDoneMutant(existing) == FALSE

\* "if existing: if existing.status == 'done'" of an admission
ExistingIsDone(existing) == existing.status # "absent" /\ existing.status = "done"

\* the poison test of an admission is off by one
ExistingIsPoisonedMutant(existing) ==
  existing.status # "absent" /\ existing.processing_count < PoisonThreshold

\* "if existing.processing_count <= -5" of an admission
ExistingIsPoisoned(existing) ==
  existing.status # "absent" /\ existing.processing_count <= PoisonThreshold

IsPoisoned(row) == row.processing_count <= PoisonThreshold

\* --------------------------------------------------- filters and policy
\* LinkFilterService.should_exclude_url
FilterShouldExcludeUrl(u) == u = ExcludedUrl

\* the policy excludes nothing
PolicyShouldExcludeUrlMutant(u) == FALSE

\* ArticlePriorityPolicy.should_exclude_url
PolicyShouldExcludeUrl(u) == u = PolicyExcludedUrl

\* the two tests every admission makes before it touches the table
ShouldExcludeUrl(u) == FilterShouldExcludeUrl(u) \/ PolicyShouldExcludeUrl(u)

\* ArticlePriorityPolicy.get_priority
GetPriority(u) == IF u = 1 THEN HighPriority ELSE 0

\* urlparse(link).netloc
Netloc(u) == u % 2

\* -------------------------------------------------------------- the heap
\* QueueItem order: priority, then _counter
ItemLess(a, b) ==
  \/ a.priority < b.priority
  \/ a.priority = b.priority /\ a.counter < b.counter

\* the heap orders by insertion counter alone
HeapMinMutant(q) == CHOOSE it \in q : \A o \in q : it.counter <= o.counter

\* asyncio.PriorityQueue.get on a non-empty heap
HeapMin(q) == CHOOSE it \in q : \A o \in q \ {it} : ItemLess(it, o)

qsize == Cardinality(queue)

\* full() is off by one
QueueFullMutant(q) == Cardinality(q) > max_queue_size

\* asyncio.PriorityQueue(maxsize=max_queue_size).full()
QueueFull(q) == Cardinality(q) >= max_queue_size

QueueItem(p, d) == [priority |-> p, counter |-> counter + 1, data |-> d]

\* ----------------------------------------------------- ordered_links
RECURSIVE SortedSeq(_)
SortedSeq(S) ==
  IF S = {} THEN <<>>
  ELSE LET m == CHOOSE x \in S : \A y \in S : x <= y
       IN <<m>> \o SortedSeq(S \ {m})

\* _assign_priorities
AssignPriorities(ls) == [i \in 1..Len(ls) |-> <<ls[i], GetPriority(ls[i])>>]

\* the links of one priority and host, each put in front of the earlier ones
RECURSIVE DomainListMutant(_, _, _)
DomainListMutant(lp, p, d) ==
  IF lp = <<>> THEN <<>>
  ELSE LET h == Head(lp)
           rest == DomainListMutant(Tail(lp), p, d)
       IN IF h[2] = p /\ Netloc(h[1]) = d THEN rest \o <<h[1]>> ELSE rest

\* priority_groups[priority][domain]: the links of one priority and host, in input order
RECURSIVE DomainList(_, _, _)
DomainList(lp, p, d) ==
  IF lp = <<>> THEN <<>>
  ELSE LET h == Head(lp)
           rest == DomainList(Tail(lp), p, d)
       IN IF h[2] = p /\ Netloc(h[1]) = d THEN <<h[1]>> \o rest ELSE rest

\* a pass that takes a link of the first host only
RoundRobinPassMutant(dq, doms, p) ==
  IF doms = <<>> \/ dq[Head(doms)] = <<>> THEN <<>>
  ELSE <<(<<Head(dq[Head(doms)]), p>>)>>

\* one pass of "for domain in domains": pop(0) of every non-empty domain queue
RECURSIVE RoundRobinPass(_, _, _)
RoundRobinPass(dq, doms, p) ==
  IF doms = <<>> THEN <<>>
  ELSE LET d == Head(doms)
       IN (IF dq[d] # <<>> THEN <<(<<Head(dq[d]), p>>)>> ELSE <<>>)
          \o RoundRobinPass(dq, Tail(doms), p)

\* no interleaving: the links of one host after those of the other
RECURSIVE RoundRobinMutant(_, _, _)
RoundRobinMutant(dq, doms, p) ==
  IF doms = <<>> THEN <<>>
  ELSE LET q == dq[Head(doms)]
       IN (IF q = <<>> THEN <<>> ELSE [i \in 1..Len(q) |-> <<q[i], p>>])
          \o RoundRobinMutant(dq, Tail(doms), p)

\* "while any(domain_queues.values())"
RECURSIVE RoundRobin(_, _, _)
RoundRobin(dq, doms, p) ==
  IF \A d \in DOMAIN dq : dq[d] = <<>> THEN <<>>
  ELSE RoundRobinPass(dq, doms, p)
       \o RoundRobin([d \in DOMAIN dq |-> IF dq[d] = <<>> THEN <<>> ELSE Tail(dq[d])], doms, p)

RECURSIVE InterleaveGroups(_, _)
InterleaveGroups(lp, ps) ==
  IF ps = <<>> THEN <<>>
  ELSE LET p == Head(ps)
           domset == {Netloc(lp[i][1]) : i \in {j \in 1..Len(lp) : lp[j][2] = p}}
           dq == [d \in domset |-> DomainList(lp, p, d)]
       IN RoundRobin(dq, SortedSeq(domset), p) \o InterleaveGroups(lp, Tail(ps))

\* _interleave_links_by_domain
InterleaveLinksByDomain(lp) ==
  InterleaveGroups(lp, SortedSeq({lp[i][2] : i \in 1..Len(lp)}))

\* sorted(article_links), _assign_priorities, _interleave_links_by_domain
OrderedLinks(S) == InterleaveLinksByDomain(AssignPriorities(SortedSeq(S)))

\* ------------------------------------------------------------ budget
\* URL QueueItems created so far and admissions that may still create one
SentinelsCreated == IF spc = "idle" THEN 0 ELSE max_workers - left
UrlItemsCreated == counter - SentinelsCreated
Reserved ==
  Cardinality({c \in Callers : pc[c] \in {"a_write", "a_push"}})
  + Cardinality({wi \in Workers \X (1..Cardinality(AllUrls)) : wi[2] <= Len(links[wi[1]])})
Budget == MaxPushes - UrlItemsCreated - Reserved

\* ------------------------------------------------------------ scrape_jobs
\* the text of the exception a scrape raises
ScrapeError == "scrape error"

\* the reason the content filter branch records
ExcludedReason == "Excluded by content filter"

\* no scrape_jobs row
AbsentJob == [status |-> "absent", error_message |-> "None"]

\* no attempt: nothing read, no job in the session or in the table
NoWork == [processing_count |-> 0, session |-> AbsentJob, committed |-> AbsentJob]

\* the scrape returned: the attempt cannot fail any more and the count that
\* url_record holds is followed no further
ScrapeReturned(wk) == [wk EXCEPT !.processing_count = 0]

\* create_scrape_job: add, flush, refresh; nothing is committed
CreateScrapeJob(wk) ==
  [wk EXCEPT !.session = [status |-> "pending", error_message |-> "None"]]

\* update_job_status: session.get(job_id) finds no row after the insert was
\* rolled back; "if job:" then does nothing
UpdateJobStatus(wk, status, error_message) ==
  IF wk.session.status = "absent"
  THEN wk
  ELSE [wk EXCEPT !.session =
          [status |-> status,
           error_message |-> IF error_message # "None" THEN error_message
                             ELSE @.error_message]]

\* repo_session.commit(): the table holds what the session holds
JobCommit(wk) == [wk EXCEPT !.committed = wk.session]

\* repo_session.rollback(): the session holds what the table holds
JobRollback(wk) == [wk EXCEPT !.session = wk.committed]

\* lines 104-105: the job is created and marked started
JobStarted(wk) == UpdateJobStatus(CreateScrapeJob(wk), "started", "None")

\* lines 127-129: result saved, job completed, commit
JobCompleted(wk) == JobCommit(UpdateJobStatus(JobStarted(wk), "completed", "None"))

\* the content filter branch with the reason left out
JobExcludedMutant(wk) == JobCommit(UpdateJobStatus(JobStarted(wk), "failed", "None"))

\* lines 114-115: job failed with the content filter's reason, commit
JobExcluded(wk) ==
  JobCommit(UpdateJobStatus(JobStarted(wk), "failed", ExcludedReason))

\* lines 149-151: rollback, job failed with the error text, commit
JobFailed(wk) ==
  JobCommit(UpdateJobStatus(JobRollback(JobStarted(wk)), "failed", ScrapeError))

\* ---------------------------------------------------------------- Init
\* no call of _interleave_links_by_domain is followed on its own
IdleInterleave == [pc |-> "idle", links_with_priority |-> <<>>, ordered |-> <<>>]

\* no exception has been caught yet: "last_exception = None"
NoException == [kind |-> "none", call |-> 0, retry_after |-> 0]

\* no ExponentialBackoffHandler is followed on its own
IdleBackoff ==
  [pc |-> "idle", max_retries |-> 0, initial_delay |-> 0, max_delay |-> 0,
   attempt |-> 0, delay |-> 0, wait_time |-> 0, calls |-> 0, retryable |-> 0,
   slept |-> <<>>, last_exception |-> NoException, raised |-> NoException]

\* no http client and no html cleaner call is followed on its own
IdleUnit == [pc |-> "idle"]

\* SpiderService.__init__ and start(): running, a new AsyncQueue, its workers
SchedulerStart ==
  /\ results = [u \in Urls |-> 0]
  /\ queue = {}
  /\ counter = 0
  /\ running = TRUE
  /\ qrunning = TRUE
  /\ pc = [p \in Procs |-> IF p \in Workers THEN "check" ELSE "idle"]
  /\ url = [p \in Procs |-> NoneData]
  /\ prio = [c \in Callers |-> 0]
  /\ loaded = [p \in Procs |-> AbsentRow]
  /\ links = [w \in Workers |-> <<>>]
  /\ ret = [c \in Callers |-> "none"]
  /\ spc = "idle"
  /\ left = 0
  /\ work = [w \in Workers |-> NoWork]

\* the state after SpiderService.start() on a fresh table
Init ==
  /\ url_queue = [u \in AllUrls |-> AbsentRow]
  /\ SchedulerStart
  /\ interleave = IdleInterleave
  /\ backoff = IdleBackoff
  /\ unit = IdleUnit

\* ------------------------------------------------------ AsyncQueue._worker
\* "while self.running"
worker_check(w) ==
  /\ pc[w] = "check"
  /\ pc' = [pc EXCEPT ![w] = IF qrunning THEN "get" ELSE "stopped"]
  /\ UNCHANGED <<url_queue, results, queue, counter, running, qrunning, url,
                 prio, loaded, links, ret, spc, left, work>>
  /\ UNCHANGED fvars

\* wait_for(self.queue.get(), timeout=1.0) returns an item; a sentinel ends the worker
worker_get(w) ==
  /\ pc[w] = "get"
  /\ queue # {}
  /\ LET it == HeapMin(queue)
     IN /\ queue' = queue \ {it}
        /\ IF it.data = NoneData
           THEN /\ pc' = [pc EXCEPT ![w] = "stopped"]
                /\ url' = url
           ELSE /\ pc' = [pc EXCEPT ![w] = "p_select"]
                /\ url' = [url EXCEPT ![w] = it.data]
  /\ UNCHANGED <<url_queue, results, counter, running, qrunning,
                 prio, loaded, links, ret, spc, left, work>>
  /\ UNCHANGED fvars

\* asyncio.TimeoutError on an empty queue: continue
worker_timeout(w) ==
  /\ pc[w] = "get"
  /\ queue = {}
  /\ pc' = [pc EXCEPT ![w] = "check"]
  /\ UNCHANGED <<url_queue, results, queue, counter, running, qrunning, url,
                 prio, loaded, links, ret, spc, left, work>>
  /\ UNCHANGED fvars

\* worker_func returned (or raised): task_done, back to the loop test
WorkerReturn(w) ==
  /\ pc' = [pc EXCEPT ![w] = "check"]
  /\ url' = [url EXCEPT ![w] = NoneData]
  /\ loaded' = [loaded EXCEPT ![w] = AbsentRow]
  /\ work' = [work EXCEPT ![w] = NoWork]

\* ------------------------------------------------ SpiderService._process_url
\* the re-read guard: select the row, drop the item if absent, done or poisoned
process_url_select(w) ==
  /\ pc[w] = "p_select"
  /\ LET row == url_queue[url[w]]
     IN IF row.status = "absent" \/ IsDone(row) \/ IsPoisoned(row)
        THEN WorkerReturn(w)
        ELSE /\ pc' = [pc EXCEPT ![w] = "p_mark"]
             /\ loaded' = [loaded EXCEPT ![w] = row]
             /\ work' = [work EXCEPT ![w].processing_count = row.processing_count]
             /\ url' = url
  /\ UNCHANGED <<url_queue, results, queue, counter, running, qrunning,
                 prio, links, ret, spc, left>>
  /\ UNCHANGED fvars

\* url_record.status = "processing"; commit
process_url_mark(w) ==
  /\ pc[w] = "p_mark"
  /\ url_queue' = [url_queue EXCEPT ![url[w]] = ProcessingUpdate(@, loaded[w])]
  /\ pc' = [pc EXCEPT ![w] = "cooldown"]
  /\ loaded' = [loaded EXCEPT ![w] = AbsentRow]
  /\ UNCHANGED <<results, queue, counter, running, qrunning, url,
                 prio, links, ret, spc, left, work>>
  /\ UNCHANGED fvars

\* after the cooldown the scraper is invoked and returns a page the content
\* filter accepts: the result is saved and the job committed as completed;
\* _enqueue_article_links starts on the links of the page
scrape_returns(w, L) ==
  /\ pc[w] = "cooldown"
  /\ Cardinality(L) <= Budget
  /\ links' = [links EXCEPT ![w] = OrderedLinks(L)]
  /\ pc' = [pc EXCEPT ![w] = IF L = {} THEN "p_done" ELSE "links"]
  /\ results' = [results EXCEPT ![url[w]] = @ + 1]
  /\ work' = [work EXCEPT ![w] = JobCompleted(ScrapeReturned(@))]
  /\ UNCHANGED <<url_queue, queue, counter, running, qrunning, url,
                 prio, loaded, ret, spc, left>>
  /\ UNCHANGED fvars

\* the page names any of the URLs of the model
scrape_ok(w) == \E L \in SUBSET RequestUrls : scrape_returns(w, L)

\* the scraper returns a page the content filter excludes: job committed as failed
scrape_excluded(w) ==
  /\ pc[w] = "cooldown"
  /\ pc' = [pc EXCEPT ![w] = "p_excl"]
  /\ work' = [work EXCEPT ![w] = JobExcluded(ScrapeReturned(@))]
  /\ UNCHANGED <<url_queue, results, queue, counter, running, qrunning, url,
                 prio, loaded, links, ret, spc, left>>
  /\ UNCHANGED fvars

\* the scraper raises: rollback, the exception reaches the outer handler
scrape_raise(w) ==
  /\ pc[w] = "cooldown"
  /\ pc' = [pc EXCEPT ![w] = "p_fail"]
  /\ work' = [work EXCEPT ![w] = JobFailed(@)]
  /\ UNCHANGED <<url_queue, results, queue, counter, running, qrunning, url,
                 prio, loaded, links, ret, spc, left>>
  /\ UNCHANGED fvars

\* the success update (also the one of the content filter branch)
process_url_done(w) ==
  /\ pc[w] \in {"p_done", "p_excl"}
  /\ url_queue' = [url_queue EXCEPT ![url[w]] = DoneUpdate(@)]
  /\ WorkerReturn(w)
  /\ UNCHANGED <<results, queue, counter, running, qrunning,
                 prio, links, ret, spc, left>>
  /\ UNCHANGED fvars

\* the failure update
process_url_failed(w) ==
  /\ pc[w] = "p_fail"
  /\ url_queue' = [url_queue EXCEPT ![url[w]] = FailedUpdate(@)]
  /\ WorkerReturn(w)
  /\ UNCHANGED <<results, queue, counter, running, qrunning,
                 prio, links, ret, spc, left>>
  /\ UNCHANGED fvars

\* ------------------------------------------------------ AsyncQueue.enqueue
\* AsyncQueue._lock is held by stop() from its first line until gather returns
LockHeld == spc \in {"s_put", "s_gather"}

\* "if not self.running: await self.start()" waits for the lock
EnqueueCanRun == qrunning \/ ~LockHeld

\* AsyncQueue.start: a new task for every worker slot
PcAfterStart ==
  IF qrunning THEN pc
  ELSE [x \in Procs |-> IF x \in Workers THEN "check" ELSE pc[x]]

\* enqueue without the test for a full queue
EnqueueRaisesMutant == FALSE

\* "if self.queue.full(): raise QueueException"
EnqueueRaises == QueueFull(queue)

\* AsyncQueue.enqueue(d, p) on queue, counter and running
Enqueue(d, p) ==
  /\ qrunning' = TRUE
  /\ IF EnqueueRaises
     THEN UNCHANGED <<queue, counter>>
     ELSE /\ queue' = queue \cup {QueueItem(p, d)}
          /\ counter' = counter + 1

\* ------------------------------------- SpiderService._enqueue_article_links
\* "continue": on to the next link, or out of the loop to the success update
LinkContinue(w, pcs) ==
  /\ links' = [links EXCEPT ![w] = Tail(@)]
  /\ pc' = [pcs EXCEPT ![w] = IF Tail(links[w]) = <<>> THEN "p_done" ELSE "links"]
  /\ loaded' = [loaded EXCEPT ![w] = AbsentRow]

\* "break"
LinkBreak(w) ==
  /\ links' = [links EXCEPT ![w] = <<>>]
  /\ pc' = [pc EXCEPT ![w] = "p_done"]
  /\ loaded' = loaded

\* top of the loop for the next link: running, queue size, filters, select
enqueue_article_links_select(w) ==
  /\ pc[w] = "links"
  /\ LET lk == Head(links[w])[1]
         row == url_queue[lk]
     IN IF ~running \/ qsize >= max_queue_size
        THEN LinkBreak(w)
        ELSE IF ShouldExcludeUrl(lk)
        THEN LinkContinue(w, pc)
        ELSE IF ExistingIsDone(row) \/ ExistingIsPoisoned(row)
        THEN LinkContinue(w, pc)
        ELSE /\ loaded' = [loaded EXCEPT ![w] = row]
             /\ pc' = [pc EXCEPT ![w] = "l_write"]
             /\ links' = links
  /\ UNCHANGED <<url_queue, results, queue, counter, running, qrunning, url,
                 prio, ret, spc, left, work>>
  /\ UNCHANGED fvars

\* update of the existing row, or insert of a new one; IntegrityError: continue
enqueue_article_links_write(w) ==
  /\ pc[w] = "l_write"
  /\ LET lk == Head(links[w])[1]
         p == Head(links[w])[2]
     IN IF loaded[w].status # "absent"
        THEN /\ url_queue' = [url_queue EXCEPT ![lk] = AdmissionUpdate(@, loaded[w], p)]
             /\ pc' = [pc EXCEPT ![w] = "l_push"]
             /\ UNCHANGED <<links, loaded>>
        ELSE IF UniqueViolation(lk)
        THEN /\ url_queue' = [url_queue EXCEPT ![lk] = IntegrityErrorRollback(@, p)]
             /\ LinkContinue(w, pc)
        ELSE /\ url_queue' = [url_queue EXCEPT ![lk] = NewRow(p)]
             /\ pc' = [pc EXCEPT ![w] = "l_push"]
             /\ UNCHANGED <<links, loaded>>
  /\ UNCHANGED <<results, queue, counter, running, qrunning, url,
                 prio, ret, spc, left, work>>
  /\ UNCHANGED fvars

\* self.queue.enqueue(link, priority); a QueueException is logged: continue
enqueue_article_links_push(w) ==
  /\ pc[w] = "l_push"
  /\ EnqueueCanRun
  /\ Enqueue(Head(links[w])[1], Head(links[w])[2])
  /\ LinkContinue(w, PcAfterStart)
  /\ UNCHANGED <<url_queue, results, running, url, prio, ret, spc, left, work>>
  /\ UNCHANGED fvars

\* ------------------------------------------------ SpiderService.enqueue_url
\* ret records True as "true" and False as the reason the code logs for it
ReturnedFalse(c) == ret[c] \notin {"none", "true"}

Return(c, r) ==
  /\ pc' = [pc EXCEPT ![c] = "idle"]
  /\ ret' = [ret EXCEPT ![c] = r]
  /\ url' = [url EXCEPT ![c] = NoneData]
  /\ loaded' = [loaded EXCEPT ![c] = AbsentRow]
  /\ prio' = [prio EXCEPT ![c] = 0]

\* "if priority == 0 and self.priority_policy"
EffectivePriority(u, p) == IF p = 0 THEN GetPriority(u) ELSE p

\* enqueue_url(u, p) up to the select: running, filters, policy priority, lookup
enqueue_url_lookup(c, u, p) ==
  /\ pc[c] = "idle"
  /\ LET row == url_queue[u]
     IN IF ~running
        THEN Return(c, "not_running")
        ELSE IF FilterShouldExcludeUrl(u)
        THEN Return(c, "excluded")
        ELSE IF PolicyShouldExcludeUrl(u)
        THEN Return(c, "policy_excluded")
        ELSE IF ExistingIsDone(row)
        THEN Return(c, "already_done")
        ELSE IF ExistingIsPoisoned(row)
        THEN Return(c, "poisoned")
        ELSE /\ pc' = [pc EXCEPT ![c] = "a_write"]
             /\ url' = [url EXCEPT ![c] = u]
             /\ prio' = [prio EXCEPT ![c] = EffectivePriority(u, p)]
             /\ loaded' = [loaded EXCEPT ![c] = row]
             /\ ret' = [ret EXCEPT ![c] = "none"]
  /\ UNCHANGED <<url_queue, results, queue, counter, running, qrunning,
                 links, spc, left, work>>
  /\ UNCHANGED fvars

\* a request for enqueue_url, while the bound on pushes leaves room for it
enqueue_url_select(c, u, p) ==
  /\ Budget > 0
  /\ enqueue_url_lookup(c, u, p)

\* update of the existing row, or insert of a new one; IntegrityError: return False
enqueue_url_write(c) ==
  /\ pc[c] = "a_write"
  /\ IF loaded[c].status # "absent"
     THEN /\ url_queue' = [url_queue EXCEPT ![url[c]] = AdmissionUpdate(@, loaded[c], prio[c])]
          /\ pc' = [pc EXCEPT ![c] = "a_push"]
          /\ UNCHANGED <<url, prio, loaded, ret>>
     ELSE IF UniqueViolation(url[c])
     THEN /\ url_queue' = [url_queue EXCEPT ![url[c]] = IntegrityErrorRollback(@, prio[c])]
          /\ Return(c, "duplicate")
     ELSE /\ url_queue' = [url_queue EXCEPT ![url[c]] = NewRow(prio[c])]
          /\ pc' = [pc EXCEPT ![c] = "a_push"]
          /\ UNCHANGED <<url, prio, loaded, ret>>
  /\ UNCHANGED <<results, queue, counter, running, qrunning, links, spc,
                 left, work>>
  /\ UNCHANGED fvars

\* self.queue.enqueue(url, priority): True, or False when it raises
enqueue_url_push(c) ==
  /\ pc[c] = "a_push"
  /\ EnqueueCanRun
  /\ Enqueue(url[c], prio[c])
  /\ pc' = [PcAfterStart EXCEPT ![c] = "idle"]
  /\ ret' = [ret EXCEPT ![c] = IF EnqueueRaises THEN "queue_full" ELSE "true"]
  /\ url' = [url EXCEPT ![c] = NoneData]
  /\ loaded' = [loaded EXCEPT ![c] = AbsentRow]
  /\ prio' = [prio EXCEPT ![c] = 0]
  /\ UNCHANGED <<url_queue, results, running, links, spc, left, work>>
  /\ UNCHANGED fvars

\* ------------------------------- SpiderService.stop / AsyncQueue.stop
Min(a, b) == IF a < b THEN a ELSE b

\* k times "await self.queue.put(QueueItem(priority=999999, data=None))"
PutSentinels(k) ==
  /\ queue' = queue \cup {[priority |-> SentinelPriority, counter |-> counter + i,
                           data |-> NoneData] : i \in 1..k}
  /\ counter' = counter + k

\* stop(): both running flags go down and the sentinels that fit are put
stop_begin ==
  /\ spc = "idle"
  /\ running
  /\ running' = FALSE
  /\ qrunning' = FALSE
  /\ LET k == Min(max_workers, max_queue_size - qsize)
     IN /\ PutSentinels(k)
        /\ left' = max_workers - k
        /\ spc' = IF max_workers - k = 0 THEN "s_gather" ELSE "s_put"
  /\ UNCHANGED <<url_queue, results, pc, url, prio, loaded, links, ret, work>>
  /\ UNCHANGED fvars

\* a put that waited for room goes on
stop_put ==
  /\ spc = "s_put"
  /\ ~QueueFull(queue)
  /\ LET k == Min(left, max_queue_size - qsize)
     IN /\ PutSentinels(k)
        /\ left' = left - k
        /\ spc' = IF left - k = 0 THEN "s_gather" ELSE "s_put"
  /\ UNCHANGED <<url_queue, results, running, qrunning, pc, url, prio, loaded,
                 links, ret, work>>
  /\ UNCHANGED fvars

\* asyncio.gather(*self.workers) returns once every worker has ended
stop_gather ==
  /\ spc = "s_gather"
  /\ \A w \in Workers : pc[w] = "stopped"
  /\ spc' = "s_done"
  /\ UNCHANGED <<url_queue, results, queue, counter, running, qrunning, pc, url,
                 prio, loaded, links, ret, left, work>>
  /\ UNCHANGED fvars

\* ------------------------------------------------- AsyncQueue.wait_complete
\* the count queue.join() waits for: every put adds one, "self.queue.task_done()"
\* takes one off when worker_func has returned or raised; a worker that gets
\* a sentinel breaks out of the loop before task_done.  The count is that of
\* the items in the heap, the items workers are processing and the sentinels
\* workers have taken
unfinished_tasks ==
  Cardinality(queue)
  + Cardinality({w \in Workers : pc[w] \notin {"check", "get", "stopped"}})
  + (SentinelsCreated - Cardinality({o \in queue : o.data = NoneData}))

\* ------------------------------------------------------------------ Next
WorkerNext(w) ==
  \/ worker_check(w)
  \/ worker_get(w)
  \/ worker_timeout(w)
  \/ process_url_select(w)
  \/ process_url_mark(w)
  \/ scrape_ok(w)
  \/ scrape_excluded(w)
  \/ scrape_raise(w)
  \/ process_url_done(w)
  \/ process_url_failed(w)
  \/ enqueue_article_links_select(w)
  \/ enqueue_article_links_write(w)
  \/ enqueue_article_links_push(w)

CallerNext(c) ==
  \/ \E u \in RequestUrls, p \in CallerPriorities : enqueue_url_select(c, u, p)
  \/ enqueue_url_write(c)
  \/ enqueue_url_push(c)

StopNext ==
  \/ stop_begin
  \/ stop_put
  \/ stop_gather

Next ==
  \/ \E w \in Workers : WorkerNext(w)
  \/ \E c \in Callers : CallerNext(c)
  \/ StopNext

Spec == Init /\ [][Next]_vars

\* the state after SpiderService.start() over a url_queue table an earlier run
\* left behind: URL 1 has failed four times
InitExisting ==
  /\ url_queue = [u \in AllUrls |->
                    IF u = 1
                    THEN [status |-> "failed", processing_count |-> PoisonThreshold + 1,
                          priority |-> GetPriority(1)]
                    ELSE AbsentRow]
  /\ SchedulerStart
  /\ interleave = IdleInterleave
  /\ backoff = IdleBackoff
  /\ unit = IdleUnit

SpecExisting == InitExisting /\ [][Next]_vars

\* ----------------------------- requests and pages that name excluded URLs
scrape_ok_policy(w) == \E L \in SUBSET PolicyUrls : scrape_returns(w, L)

PolicyWorkerNext(w) ==
  \/ worker_check(w)
  \/ worker_get(w)
  \/ worker_timeout(w)
  \/ process_url_select(w)
  \/ process_url_mark(w)
  \/ scrape_ok_policy(w)
  \/ scrape_excluded(w)
  \/ scrape_raise(w)
  \/ process_url_done(w)
  \/ process_url_failed(w)
  \/ enqueue_article_links_select(w)
  \/ enqueue_article_links_write(w)
  \/ enqueue_article_links_push(w)

PolicyCallerNext(c) ==
  \/ \E u \in PolicyUrls, p \in CallerPriorities : enqueue_url_select(c, u, p)
  \/ enqueue_url_write(c)
  \/ enqueue_url_push(c)

PolicyNext ==
  \/ \E w \in Workers : PolicyWorkerNext(w)
  \/ \E c \in Callers : PolicyCallerNext(c)
  \/ StopNext

SpecPolicy == Init /\ [][PolicyNext]_vars

\* ------------------------------------ _interleave_links_by_domain on its own
\* links 1 and 3 are of one host, links 2 and 4 of another
InterleaveLinks == 1..4
InterleavePriorities == {HighPriority, 0}

\* every list of at most MaxLen (link, priority) tuples
RECURSIVE LinksWithPriority(_)
LinksWithPriority(n) ==
  IF n = 0 THEN {<<>>}
  ELSE LET shorter == LinksWithPriority(n - 1)
       IN shorter \cup {Append(lp, <<l, p>>) :
                          lp \in {x \in shorter : Len(x) = n - 1},
                          l \in InterleaveLinks, p \in InterleavePriorities}

InitInterleave ==
  /\ url_queue = [u \in AllUrls |-> AbsentRow]
  /\ SchedulerStart
  /\ backoff = IdleBackoff
  /\ unit = IdleUnit
  /\ interleave \in {[pc |-> "called", links_with_priority |-> lp, ordered |-> <<>>] :
                        lp \in LinksWithPriority(MaxLen)}

\* the call returns `ordered`
interleave_links_by_domain ==
  /\ interleave.pc = "called"
  /\ interleave' = [interleave EXCEPT
                      !.pc = "returned",
                      !.ordered = InterleaveLinksByDomain(interleave.links_with_priority)]
  /\ UNCHANGED <<svars, backoff, unit>>

SpecInterleave == InitInterleave /\ [][interleave_links_by_domain]_vars

\* the tuples of priority class p, in the order of the list
PriorityClass(lp, p) == SelectSeq(lp, LAMBDA e : e[2] = p)

\* the hosts of a list of tuples
Hosts(lp) == {Netloc(lp[i][1]) : i \in 1..Len(lp)}

\* the number of tuples of host h in a list
LinksOfHost(lp, h) == Cardinality({i \in 1..Len(lp) : Netloc(lp[i][1]) = h})

\* ------------------------------- ExponentialBackoffHandler.handle on its own
\* ExponentialBackoffHandler(max_retries, initial_delay, max_delay), in seconds
InitialDelays == {1, 2}
MaxDelays == {3, 60}
\* backoff_factor: float = 2.0
backoff_factor == 2
\* e.retry_after of a RetryableException: None (0 here), or seconds
RetryAfters == {0, 5}

\* handle() is entered: "delay = self.initial_delay; last_exception = None"
InitBackoff ==
  /\ url_queue = [u \in AllUrls |-> AbsentRow]
  /\ SchedulerStart
  /\ interleave = IdleInterleave
  /\ unit = IdleUnit
  /\ backoff \in {[IdleBackoff EXCEPT !.pc = "call", !.max_retries = n,
                                       !.initial_delay = d, !.max_delay = m,
                                       !.delay = d] :
                     n \in 0..MaxRetries, d \in InitialDelays, m \in MaxDelays}

Max(a, b) == IF a > b THEN a ELSE b

\* the wait ignores the retry_after of the error
WaitTimeMutant(delay, max_delay, retry_after) == Min(delay, max_delay)

\* "wait_time = min(delay, self.max_delay)
\*  if e.retry_after: wait_time = max(wait_time, e.retry_after)"
WaitTime(delay, max_delay, retry_after) ==
  IF retry_after # 0
  THEN Max(Min(delay, max_delay), retry_after)
  ELSE Min(delay, max_delay)

\* the handler sleeps after every failed attempt, the last one too
ShouldSleepMutant(attempt, max_retries) == TRUE

\* "if attempt < self.max_retries"
ShouldSleep(attempt, max_retries) == attempt < max_retries

\* the next turn of "for attempt in range(self.max_retries + 1)", or after the
\* loop "if last_exception: raise last_exception"
NextAttempt(b) ==
  IF b.attempt + 1 <= b.max_retries
  THEN [b EXCEPT !.attempt = @ + 1, !.pc = "call"]
  ELSE [b EXCEPT !.pc = "raised", !.raised = b.last_exception]

\* "return await func(*args, **kwargs)": func returns
func_returns ==
  /\ backoff.pc = "call"
  /\ backoff' = [backoff EXCEPT !.calls = @ + 1, !.pc = "returned"]
  /\ UNCHANGED <<svars, interleave, unit>>

\* func raises an exception that is not retryable: "raise"
func_raises ==
  /\ backoff.pc = "call"
  /\ backoff' = [backoff EXCEPT
                   !.calls = @ + 1, !.pc = "raised",
                   !.raised = [kind |-> "other", call |-> backoff.calls + 1,
                               retry_after |-> 0]]
  /\ UNCHANGED <<svars, interleave, unit>>

\* func raises a RetryableException: up to "await asyncio.sleep(wait_time)",
\* or on to the end of the loop when this was the last attempt
func_raises_retryable(ra) ==
  /\ backoff.pc = "call"
  /\ LET e == [kind |-> "retryable", call |-> backoff.calls + 1, retry_after |-> ra]
         b == [backoff EXCEPT !.calls = @ + 1, !.retryable = @ + 1,
                              !.last_exception = e]
     IN backoff' =
          IF ShouldSleep(b.attempt, b.max_retries)
          THEN [b EXCEPT !.pc = "sleep",
                         !.wait_time = WaitTime(b.delay, b.max_delay, ra)]
          ELSE NextAttempt(b)
  /\ UNCHANGED <<svars, interleave, unit>>

\* the sleep is over: "delay *= self.backoff_factor"
handle_sleep ==
  /\ backoff.pc = "sleep"
  /\ backoff' = NextAttempt([backoff EXCEPT
                               !.slept = Append(@, backoff.wait_time),
                               !.delay = @ * backoff_factor])
  /\ UNCHANGED <<svars, interleave, unit>>

BackoffNext ==
  \/ func_returns
  \/ func_raises
  \/ \E ra \in RetryAfters : func_raises_retryable(ra)
  \/ handle_sleep

SpecBackoff == InitBackoff /\ [][BackoffNext]_vars

\* ------------------------- the default chain: Cooldown -> ExponentialBackoff
\* RetryManager.create_default_chain(max_retries, initial_delay): the
\* CooldownHandler's handle is entered and calls _try_next, the handle of an
\* ExponentialBackoffHandler with the default max_delay; unit counts the
\* calls of func made by the rounds that are over
InitChain ==
  /\ url_queue = [u \in AllUrls |-> AbsentRow]
  /\ SchedulerStart
  /\ interleave = IdleInterleave
  /\ unit = [pc |-> "try_next", round |-> 1, cooldowns |-> 0, calls |-> 0,
             retryable |-> 0]
  /\ backoff \in {[IdleBackoff EXCEPT !.pc = "call", !.max_retries = n,
                                       !.initial_delay = d, !.max_delay = 60,
                                       !.delay = d] :
                     n \in 0..MaxRetries, d \in InitialDelays}

\* the handler lets the RetryableException of the first _try_next go on to
\* its caller
cooldown_sleepMutant ==
  /\ unit.pc = "try_next" /\ unit.round = 1
  /\ backoff.pc = "raised" /\ backoff.raised.kind = "retryable"
  /\ unit' = [unit EXCEPT !.pc = "raised"]
  /\ UNCHANGED <<svars, interleave, backoff>>

\* "except RetryableException": the first _try_next raised it; the handler
\* sleeps cooldown_seconds and calls _try_next again, outside the try
cooldown_sleep ==
  /\ unit.pc = "try_next" /\ unit.round = 1
  /\ backoff.pc = "raised" /\ backoff.raised.kind = "retryable"
  /\ unit' = [unit EXCEPT !.round = 2, !.cooldowns = @ + 1,
                          !.calls = @ + backoff.calls,
                          !.retryable = @ + backoff.retryable]
  /\ backoff' = [IdleBackoff EXCEPT !.pc = "call",
                                    !.max_retries = backoff.max_retries,
                                    !.initial_delay = backoff.initial_delay,
                                    !.max_delay = backoff.max_delay,
                                    !.delay = backoff.initial_delay]
  /\ UNCHANGED <<svars, interleave>>

\* a _try_next returns, or raises what the handler does not catch (any
\* exception of the second call, another exception than RetryableException
\* of the first): that is how handle ends
cooldown_leaves ==
  /\ unit.pc = "try_next"
  /\ \/ backoff.pc = "returned"
     \/ /\ backoff.pc = "raised"
        /\ ~(unit.round = 1 /\ backoff.raised.kind = "retryable")
  /\ unit' = [unit EXCEPT !.pc = backoff.pc]
  /\ UNCHANGED <<svars, interleave, backoff>>

SpecChain ==
  InitChain /\
  [][ \/ func_returns
      \/ func_raises
      \/ \E ra \in RetryAfters : func_raises_retryable(ra)
      \/ handle_sleep
      \/ cooldown_sleep
      \/ cooldown_leaves
  ]_vars

\* ------------------------------------------------- stop() and then start()
\* SpiderService.start() once stop() has returned and released the lock:
\* running again, with a new AsyncQueue (an empty heap) and new workers
start ==
  /\ spc = "s_done"
  /\ ~running
  /\ ~qrunning
  /\ \A c \in Callers : pc[c] # "a_push"
  /\ running' = TRUE
  /\ queue' = {}
  /\ qrunning' = TRUE
  /\ pc' = [p \in Procs |-> IF p \in Workers THEN "check" ELSE pc[p]]
  /\ spc' = "restarted"
  /\ UNCHANGED <<url_queue, results, counter, url, prio, loaded, links,
                 ret, left, work>>
  /\ UNCHANGED fvars

RestartNext ==
  \/ Next
  \/ start

SpecRestart == Init /\ [][RestartNext]_vars

\* ------------------------------------------ a URL whose scrape always fails
\* the URL the requests of this scenario name
FailingUrls == {1}

\* no item of u waits in the queue and no worker or caller has u in hand
Quiescent(u) ==
  /\ \A it \in queue : it.data # u
  /\ \A p \in Procs : url[p] # u

FailingWorkerNext(w) ==
  \/ worker_check(w)
  \/ worker_get(w)
  \/ worker_timeout(w)
  \/ process_url_select(w)
  \/ process_url_mark(w)
  \/ scrape_raise(w)
  \/ process_url_failed(w)

\* enqueue_url(u) is called again and again, each time after the cycle of the
\* call before has ended
FailingCallerNext(c) ==
  \/ \E u \in FailingUrls, p \in CallerPriorities :
       Quiescent(u) /\ enqueue_url_lookup(c, u, p)
  \/ enqueue_url_write(c)
  \/ enqueue_url_push(c)

FailingNext ==
  \/ \E w \in Workers : FailingWorkerNext(w)
  \/ \E c \in Callers : FailingCallerNext(c)

SpecFailing == Init /\ [][FailingNext]_vars

\* asyncio runs every coroutine that can go on; a request for enqueue_url or
\* a scrape outcome is never forced
Fairness ==
  /\ \A w \in Workers : WF_vars(WorkerNext(w))
  /\ \A c \in Callers : WF_vars(enqueue_url_write(c) \/ enqueue_url_push(c))
  /\ WF_vars(StopNext)

FairSpec == Init /\ [][Next]_vars /\ Fairness

\* ============================================================ http clients
\* FallbackHttpClient.fetch over an HttpxClient with the default retry chain
\* and an optional BrowserClient, followed on its own; times in milliseconds

\* what "await client.get(request.url)" does: a response, or an exception;
\* response.status_code on both sides of 400 and of 500, len(response.text)
\* on both sides of 500
Responses ==
  {[transport |-> "response", status_code |-> s, content_length |-> n,
    redirected |-> r] :
     s \in {200, 399, 400, 499, 500}, n \in {499, 500}, r \in BOOLEAN}
  \cup {[transport |-> t, status_code |-> 0, content_length |-> 0,
         redirected |-> FALSE] : t \in {"httpx.HTTPError", "Exception"}}

\* nothing raised
NoError == [kind |-> "none", message |-> "", retry_after |-> 0]

\* the body of the try block of _fetch_internal: the exception it raises
TryBody(resp) ==
  IF resp.transport # "response"
  THEN [kind |-> resp.transport, message |-> "transport", retry_after |-> 0]
  ELSE IF resp.status_code >= 400
  THEN [kind |-> "HttpClientException", message |-> "HTTP error",
        retry_after |-> IF resp.status_code < 500 THEN 2000 ELSE 10000]
  ELSE IF resp.content_length < 500 /\ resp.redirected
  THEN [kind |-> "HttpClientException", message |-> "Redirect detected",
        retry_after |-> 100]
  ELSE NoError

\* "except httpx.HTTPError" and "except Exception" of the same try: every
\* exception of the body, an HttpClientException raised in it included, is
\* caught and replaced
ExceptClauses(e) ==
  IF e.kind = "none" THEN e
  ELSE IF e.kind = "httpx.HTTPError"
  THEN [kind |-> "HttpClientException", message |-> "HTTP request failed",
        retry_after |-> 5000]
  ELSE [kind |-> "HttpClientException", message |-> "Request failed",
        retry_after |-> 5000]

\* HttpxClient._fetch_internal: the exception that leaves it (none: it returns)
FetchInternal(resp) == ExceptClauses(TryBody(resp))

\* calls of func the chain Cooldown -> ExponentialBackoff makes while every
\* call raises a RetryableException: max_retries + 1, cooldown, max_retries + 1
ChainCalls(max_retries) == 2 * (max_retries + 1)

\* FallbackHttpClient.fetch is entered
InitHttp ==
  /\ url_queue = [u \in AllUrls |-> AbsentRow]
  /\ SchedulerStart
  /\ interleave = IdleInterleave
  /\ backoff = IdleBackoff
  /\ unit \in {[pc |-> "primary", fallback_configured |-> f, max_retries |-> n,
                calls |-> 0, response |-> r, raised |-> NoError,
                browser_calls |-> 0, outcome |-> NoError] :
                 f \in BOOLEAN, n \in 0..MaxRetries,
                 r \in {[transport |-> "none", status_code |-> 0,
                         content_length |-> 0, redirected |-> FALSE]}}

\* one call of _fetch_internal by the retry chain of primary_client.fetch
httpx_fetch_internal(resp) ==
  /\ unit.pc = "primary"
  /\ LET e == FetchInternal(resp)
     IN unit' = [unit EXCEPT
                   !.calls = @ + 1,
                   !.response = resp,
                   !.raised = e,
                   !.outcome = IF e.kind = "none"
                               THEN [NoError EXCEPT !.message = "primary response"]
                               ELSE @,
                   !.pc = IF e.kind = "none" THEN "returned"
                          ELSE IF unit.calls + 1 < ChainCalls(unit.max_retries)
                          THEN "primary"
                          ELSE "primary_failed"]
  /\ UNCHANGED <<svars, interleave, backoff>>

\* "if not self.fallback_client: raise RuntimeError(...) from e"
fallback_not_available ==
  /\ unit.pc = "primary_failed"
  /\ ~unit.fallback_configured
  /\ unit' = [unit EXCEPT
                !.pc = "raised",
                !.outcome = [kind |-> "RuntimeError",
                             message |-> "Primary client failed and no fallback available",
                             retry_after |-> 0]]
  /\ UNCHANGED <<svars, interleave, backoff>>

\* "return await self.fallback_client.fetch(request)" returns
fallback_fetch_returns ==
  /\ unit.pc = "primary_failed"
  /\ unit.fallback_configured
  /\ unit' = [unit EXCEPT
                !.pc = "returned",
                !.browser_calls = @ + 1,
                !.outcome = [NoError EXCEPT !.message = "browser response"]]
  /\ UNCHANGED <<svars, interleave, backoff>>

\* the fallback raises e after its own retry chain: "raise RuntimeError("Both clients failed") from fallback_error"
fallback_fetch_raises(e) ==
  /\ unit.pc = "primary_failed"
  /\ unit.fallback_configured
  /\ unit' = [unit EXCEPT
                !.pc = "raised",
                !.browser_calls = @ + 1,
                !.outcome = [kind |-> "RuntimeError",
                             message |-> "Both clients failed",
                             retry_after |-> 0]]
  /\ UNCHANGED <<svars, interleave, backoff>>

SpecHttp ==
  InitHttp /\
  [][ \/ \E resp \in Responses : httpx_fetch_internal(resp)
      \/ fallback_not_available
      \/ fallback_fetch_returns
      \/ \E k \in {"HttpClientException", "BrowserConnectionException"} :
           fallback_fetch_raises([kind |-> k, message |-> "browser",
                                  retry_after |-> 5000])
  ]_vars

\* ============================================================ BrowserClient
\* concurrent _fetch_internal calls through the one BrowserClient that the
\* workers' scrapes share; one action is the code between two suspending awaits

\* the coroutines that fetch through the client at the same time are the
\* workers' scrapes

\* BrowserClient.__init__: no browser, no context; every fetch still to start
InitBrowser ==
  /\ url_queue = [u \in AllUrls |-> AbsentRow]
  /\ SchedulerStart
  /\ interleave = IdleInterleave
  /\ backoff = IdleBackoff
  /\ unit = [pc |-> [f \in Workers |-> "fetch"],
             browser |-> 0, context |-> 0,
             connections |-> 0, contexts |-> 0,
             page |-> [f \in Workers |-> "none"],
             outcome |-> [f \in Workers |-> "none"]]

\* _ensure_context after _connect returned: "if self._context is None"
ContextTest(context) == IF context = 0 THEN "new_context" ELSE "new_page"

\* _fetch_internal is called: _ensure_context, _connect, "if self._browser is
\* not None: return", up to the first await that suspends
browser_fetch_internal(f) ==
  /\ unit.pc[f] = "fetch"
  /\ unit' = [unit EXCEPT
                !.pc[f] = IF unit.browser # 0 THEN ContextTest(unit.context)
                          ELSE "start"]
  /\ UNCHANGED <<svars, interleave, backoff>>

\* "self._playwright = await async_playwright().start()" resumes
browser_playwright_started(f) ==
  /\ unit.pc[f] = "start"
  /\ unit' = [unit EXCEPT !.pc[f] = "connect_over_cdp"]
  /\ UNCHANGED <<svars, interleave, backoff>>

\* "self._browser = await ...connect_over_cdp(...)" resumes with a new
\* connection; _connect returns and _ensure_context tests the context
browser_connected(f) ==
  /\ unit.pc[f] = "connect_over_cdp"
  /\ unit' = [unit EXCEPT
                !.connections = @ + 1,
                !.browser = unit.connections + 1,
                !.pc[f] = ContextTest(unit.context)]
  /\ UNCHANGED <<svars, interleave, backoff>>

\* start() or connect_over_cdp raises: BrowserConnectionException leaves
\* _fetch_internal before any page exists
browser_connect_fails(f) ==
  /\ unit.pc[f] \in {"start", "connect_over_cdp"}
  /\ unit' = [unit EXCEPT !.pc[f] = "done",
                          !.outcome[f] = "BrowserConnectionException"]
  /\ UNCHANGED <<svars, interleave, backoff>>

\* "self._context = await self._browser.new_context(...)" resumes;
\* _fetch_internal goes on to "await self._context.new_page()"
browser_context_created(f) ==
  /\ unit.pc[f] = "new_context"
  /\ unit' = [unit EXCEPT
                !.contexts = @ + 1,
                !.context = unit.contexts + 1,
                !.pc[f] = "new_page"]
  /\ UNCHANGED <<svars, interleave, backoff>>

\* "page = await self._context.new_page()" resumes: the try block is entered
browser_page_opened(f) ==
  /\ unit.pc[f] = "new_page"
  /\ unit' = [unit EXCEPT !.page[f] = "open", !.pc[f] = "try"]
  /\ UNCHANGED <<svars, interleave, backoff>>

\* new_context or new_page raises: the exception leaves _fetch_internal
\* before the try block, no page exists
browser_open_fails(f) ==
  /\ unit.pc[f] \in {"new_context", "new_page"}
  /\ unit' = [unit EXCEPT !.pc[f] = "done", !.outcome[f] = "Exception"]
  /\ UNCHANGED <<svars, interleave, backoff>>

\* the try block ends: it returns the response, raises HttpClientException
\* (re-raised as it is) or another exception (wrapped); finally is entered
browser_try_ends(f, o) ==
  /\ unit.pc[f] = "try"
  /\ unit' = [unit EXCEPT
                !.pc[f] = "finally",
                !.outcome[f] = IF o = "Exception" THEN "HttpClientException"
                               ELSE o]
  /\ UNCHANGED <<svars, interleave, backoff>>

\* "finally: await page.close()"
browser_page_closed(f) ==
  /\ unit.pc[f] = "finally"
  /\ unit' = [unit EXCEPT !.page[f] = "closed", !.pc[f] = "done"]
  /\ UNCHANGED <<svars, interleave, backoff>>

SpecBrowser ==
  InitBrowser /\
  [][ \E f \in Workers :
        \/ browser_fetch_internal(f)
        \/ browser_playwright_started(f)
        \/ browser_connected(f)
        \/ browser_connect_fails(f)
        \/ browser_context_created(f)
        \/ browser_page_opened(f)
        \/ browser_open_fails(f)
        \/ \E o \in {"return", "HttpClientException", "Exception"} :
             browser_try_ends(f, o)
        \/ browser_page_closed(f)
  ]_vars

\* ============================================================== HtmlCleaner
\* the parsed document: a node is an element (tag, attribute names, children)
\* or a string (tag "#text"); a string is followed by what the pipeline tests
\* of it: whitespace only ("space"), a phrase that remove_junk_text_blocks
\* can compare with JUNK_WORDS, or other text ("text")
Text(k) == [tag |-> "#text", text |-> k, attrs |-> {}, kids |-> <<>>]

Element(t, ks) == [tag |-> t, text |-> "", attrs |-> {}, kids |-> ks]

\* "getattr(c, "name", None)": a Tag, not a NavigableString
IsElement(n) == n.tag # "#text"

\* the element children of a tag
ElementKids(n) == SelectSeq(n.kids, IsElement)

\* str.strip() of a string of the model that is not whitespace only
StripText(s) == IF s = " sponsored " THEN "sponsored" ELSE s

\* str.lower() of a string of the model
LowerText(s) ==
  CASE s = "Advertisement" -> "advertisement"
    [] s = "Newsletters" -> "newsletters"
    [] s = "you may likeNewsletters" -> "you may likenewsletters"
    [] OTHER -> s

\* JUNK_WORDS of remove_junk_text_blocks: no comma follows "you may like", so
\* the literal after it is joined to it
JUNK_WORDS ==
  {"advertisement", "sponsored", "promoted", "related articles", "recommended",
   "you may likeNewsletters"}

\* tag.get_text(strip=True): the stripped strings below the tag run together;
\* "none" when every string is whitespace, and two strings run together are
\* no junk word
RECURSIVE GetText(_)
GetText(n) ==
  IF ~IsElement(n) THEN (IF n.text = "space" THEN "none" ELSE StripText(n.text))
  ELSE LET some == {i \in 1..Len(n.kids) : GetText(n.kids[i]) # "none"}
       IN IF some = {} THEN "none"
          ELSE IF Cardinality(some) = 1 THEN GetText(n.kids[CHOOSE i \in some : TRUE])
          ELSE "text"

\* "not tag.get_text(strip=True) and not tag.find(True)"
IsEmptyTag(n) == GetText(n) = "none" /\ ElementKids(n) = <<>>

\* find_all(tags) and decompose() of every match
RECURSIVE RemoveTags(_, _)
RemoveTags(n, tags) ==
  IF ~IsElement(n) THEN n
  ELSE LET keep == SelectSeq(n.kids, LAMBDA k : k.tag \notin tags)
       IN [n EXCEPT !.kids = [i \in 1..Len(keep) |-> RemoveTags(keep[i], tags)]]

\* one pass over find_all(tags) in document order that decomposes the empty
\* ones: a tag is tested before the tags below it are
RECURSIVE RemoveEmpty(_, _)
RemoveEmpty(n, tags) ==
  IF ~IsElement(n) THEN n
  ELSE LET keep == SelectSeq(n.kids, LAMBDA k : ~(k.tag \in tags /\ IsEmptyTag(k)))
       IN [n EXCEPT !.kids = [i \in 1..Len(keep) |-> RemoveEmpty(keep[i], tags)]]

\* remove_junk_text_blocks: every tag whose text, lower-cased, is in JUNK_WORDS
RECURSIVE RemoveJunk(_)
RemoveJunk(n) ==
  IF ~IsElement(n) THEN n
  ELSE LET keep == SelectSeq(n.kids, LAMBDA k : ~(IsElement(k) /\ LowerText(GetText(k)) \in JUNK_WORDS))
       IN [n EXCEPT !.kids = [i \in 1..Len(keep) |-> RemoveJunk(keep[i])]]

\* "del tag[name]" / "tag.attrs.pop(name, None)" on every tag
RECURSIVE RemoveAttrs(_, _)
RemoveAttrs(n, names) ==
  IF ~IsElement(n) THEN n
  ELSE [n EXCEPT !.attrs = @ \ names,
                 !.kids = [i \in 1..Len(n.kids) |-> RemoveAttrs(n.kids[i], names)]]

\* aggressive_cleanup: attributes with an empty value go; tag.string, the
\* only child of a tag, is extracted when it is whitespace
RECURSIVE AggressiveCleanup(_)
AggressiveCleanup(n) ==
  IF ~IsElement(n) THEN n
  ELSE LET ks == IF Len(n.kids) = 1 /\ n.kids[1] = Text("space")
                 THEN <<>> ELSE n.kids
       IN [n EXCEPT !.attrs = @ \ {"blank"},
                    !.kids = [i \in 1..Len(ks) |-> AggressiveCleanup(ks[i])]]

\* two adjacent strings written out and parsed again are one string
RECURSIVE MergeStrings(_)
MergeStrings(ks) ==
  IF Len(ks) < 2 THEN ks
  ELSE LET rest == MergeStrings(Tail(ks))
           a == Head(ks).text
           b == Head(rest).text
       IN IF ~IsElement(Head(ks)) /\ ~IsElement(Head(rest))
          THEN <<Text(IF a = "space" THEN b ELSE IF b = "space" THEN a ELSE "text")>>
               \o Tail(rest)
          ELSE <<Head(ks)>> \o rest

\* str(soup), and BeautifulSoup(str(body), "lxml") of keep_only_body: the
\* same tree with adjacent strings run together
RECURSIVE GetHtml(_)
GetHtml(n) ==
  IF ~IsElement(n) THEN n
  ELSE [n EXCEPT !.kids = MergeStrings([i \in 1..Len(n.kids) |-> GetHtml(n.kids[i])])]

\* one pass of collapse_wrappers over find_all("div") in document order: a div
\* with exactly one element child is replaced by that child, which is a later
\* element of the same pass
RECURSIVE CollapsePass(_)
CollapsePass(n) ==
  IF ~IsElement(n) THEN n
  ELSE IF n.tag = "div" /\ Len(ElementKids(n)) = 1
  THEN CollapsePass(ElementKids(n)[1])
  ELSE [n EXCEPT !.kids = [i \in 1..Len(n.kids) |-> CollapsePass(n.kids[i])]]

\* ------------------------------------------------ the documents of the model
\* the soup of a page whose body holds one node
Soup(n) == Element("#document", <<Element("body", <<n>>)>>)

\* The pages: a body that holds a leaf (a string, or an element without
\* children), an element over one or two leaves, or a div around such an
\* element, alone or followed by a leaf.  A span or a p holds strings, spans
\* and scripts; a div or a nav holds these and divs, ps and navs.  No two
\* strings are adjacent.  An element carries no attribute, or the ones the
\* pipeline strips (style, class, id, one with an empty value) and one it
\* keeps.
Documents ==
  LET Kids(S) ==
        {<<a>> : a \in S} \cup
        {ks \in {<<a, b>> : a \in S, b \in S} : IsElement(ks[1]) \/ IsElement(ks[2])}
      InlineLeaves ==
        {Text(k) : k \in {"text", "space", "advertisement"}} \cup
        {Element("span", <<>>), Element("script", <<>>)}
      BlockLeaves ==
        InlineLeaves \cup
        {Element("div", <<>>), Element("p", <<>>), Element("nav", <<>>)}
      Level1 ==
        {Element(t, ks) : t \in {"span", "p"}, ks \in Kids(InlineLeaves)} \cup
        {Element(t, ks) : t \in {"div", "nav"}, ks \in Kids(BlockLeaves)}
      Level2 ==
        {Element("div", <<a>>) : a \in Level1} \cup
        {Element("div", <<a, b>>) : a \in Level1, b \in BlockLeaves}
      Attrs == {{}, {"style", "class", "id", "blank", "href"}}
  IN {Soup([n EXCEPT !.attrs = IF IsElement(n) THEN a ELSE {}]) :
        n \in BlockLeaves \cup Level1 \cup Level2, a \in Attrs}

\* n div wrappers around <p>text</p>
RECURSIVE Wrapped(_)
Wrapped(n) ==
  IF n = 0 THEN Element("p", <<Text("text")>>)
  ELSE Element("div", <<Wrapped(n - 1)>>)

\* ---------------------------------- GenericScraper._run_cleaning_pipeline
\* the pipeline is run on a page, then once more on its own result
InitCleaner ==
  /\ url_queue = [u \in AllUrls |-> AbsentRow]
  /\ SchedulerStart
  /\ interleave = IdleInterleave
  /\ backoff = IdleBackoff
  /\ unit \in {[pc |-> "remove_scripts", soup |-> d, run |-> 1, first |-> d] :
                 d \in Documents}

\* every <script> goes; "application/ld+json" scripts stay, the model has none
remove_scripts ==
  /\ unit.pc = "remove_scripts"
  /\ unit' = [unit EXCEPT !.pc = "remove_css",
                          !.soup = RemoveTags(unit.soup, {"script"})]
  /\ UNCHANGED <<svars, interleave, backoff>>

\* <style> elements and style attributes
remove_css ==
  /\ unit.pc = "remove_css"
  /\ unit' = [unit EXCEPT !.pc = "remove_iframes",
                          !.soup = RemoveAttrs(RemoveTags(unit.soup, {"style"}), {"style"})]
  /\ UNCHANGED <<svars, interleave, backoff>>

remove_iframes ==
  /\ unit.pc = "remove_iframes"
  /\ unit' = [unit EXCEPT !.pc = "remove_svg",
                          !.soup = RemoveTags(unit.soup, {"iframe"})]
  /\ UNCHANGED <<svars, interleave, backoff>>

remove_svg ==
  /\ unit.pc = "remove_svg"
  /\ unit' = [unit EXCEPT !.pc = "remove_junk_text_blocks",
                          !.soup = RemoveTags(unit.soup, {"svg"})]
  /\ UNCHANGED <<svars, interleave, backoff>>

remove_junk_text_blocks ==
  /\ unit.pc = "remove_junk_text_blocks"
  /\ unit' = [unit EXCEPT !.pc = "remove_all_classes_and_ids",
                          !.soup = RemoveJunk(unit.soup)]
  /\ UNCHANGED <<svars, interleave, backoff>>

remove_all_classes_and_ids ==
  /\ unit.pc = "remove_all_classes_and_ids"
  /\ unit' = [unit EXCEPT !.pc = "remove_empty_tags",
                          !.soup = RemoveAttrs(unit.soup, {"class", "id"})]
  /\ UNCHANGED <<svars, interleave, backoff>>

\* a single pass
remove_empty_tags ==
  /\ unit.pc = "remove_empty_tags"
  /\ unit' = [unit EXCEPT !.pc = "aggressive_cleanup",
                          !.soup = RemoveEmpty(unit.soup,
                                     {"div", "span", "section", "article", "p",
                                      "aside", "header", "footer"})]
  /\ UNCHANGED <<svars, interleave, backoff>>

aggressive_cleanup ==
  /\ unit.pc = "aggressive_cleanup"
  /\ unit' = [unit EXCEPT !.pc = "keep_only_body",
                          !.soup = AggressiveCleanup(unit.soup)]
  /\ UNCHANGED <<svars, interleave, backoff>>

\* "if body:" parses str(body) again; a soup without body stays
keep_only_body ==
  /\ unit.pc = "keep_only_body"
  /\ unit' = [unit EXCEPT !.pc = "remove_layout_tags",
                          !.soup = IF unit.soup.kids = <<>> THEN unit.soup
                                   ELSE GetHtml(unit.soup)]
  /\ UNCHANGED <<svars, interleave, backoff>>

remove_layout_tags ==
  /\ unit.pc = "remove_layout_tags"
  /\ unit' = [unit EXCEPT !.pc = "collapse_wrappers",
                          !.soup = RemoveTags(unit.soup,
                                     {"nav", "aside", "footer", "header", "menu"})]
  /\ UNCHANGED <<svars, interleave, backoff>>

\* one turn of "while changed": a pass; the loop ends after a pass that
\* replaced nothing
collapse_wrappers ==
  /\ unit.pc = "collapse_wrappers"
  /\ LET soup == CollapsePass(unit.soup)
     IN unit' = [unit EXCEPT !.soup = soup,
                             !.pc = IF soup # unit.soup THEN "collapse_wrappers" ELSE "deep_prune_empty"]
  /\ UNCHANGED <<svars, interleave, backoff>>

\* one turn of "while removed"
deep_prune_empty ==
  /\ unit.pc = "deep_prune_empty"
  /\ LET soup == RemoveEmpty(unit.soup, {"div", "span", "section"})
     IN unit' = [unit EXCEPT !.soup = soup,
                             !.pc = IF soup # unit.soup THEN "deep_prune_empty" ELSE "get_html"]
  /\ UNCHANGED <<svars, interleave, backoff>>

\* the pipeline returned: get_html; the first result is kept and the pipeline
\* is run again on the cleaner it returned
get_html ==
  /\ unit.pc = "get_html"
  /\ unit' = IF unit.run = 1
             THEN [unit EXCEPT !.pc = "remove_scripts", !.run = 2,
                               !.first = GetHtml(unit.soup)]
             ELSE [unit EXCEPT !.pc = "done"]
  /\ UNCHANGED <<svars, interleave, backoff>>

SpecCleaner ==
  InitCleaner /\
  [][ remove_scripts
    \/ remove_css
    \/ remove_iframes
    \/ remove_svg
    \/ remove_junk_text_blocks
    \/ remove_all_classes_and_ids
    \/ remove_empty_tags
    \/ aggressive_cleanup
    \/ keep_only_body
    \/ remove_layout_tags
    \/ collapse_wrappers
    \/ deep_prune_empty
    \/ get_html
  ]_vars

\* collapse_wrappers and deep_prune_empty on their own, on any document and
\* on the chains of div wrappers around one <p>text</p>
InitCollapse ==
  /\ url_queue = [u \in AllUrls |-> AbsentRow]
  /\ SchedulerStart
  /\ interleave = IdleInterleave
  /\ backoff = IdleBackoff
  /\ unit \in {[pc |-> "collapse_wrappers", soup |-> d, run |-> 2, first |-> d] :
                 d \in Documents \cup {Soup(Wrapped(n)) : n \in 1..MaxDepth}}

SpecCollapse ==
  InitCollapse /\ [][collapse_wrappers \/ deep_prune_empty \/ get_html]_vars

\* remove_junk_text_blocks on its own, on a page whose body holds a div around
\* a <p> and a <span> with one string each: the listed phrases, some of them
\* capitalised or padded, the joined literal, and other text
InitJunk ==
  /\ url_queue = [u \in AllUrls |-> AbsentRow]
  /\ SchedulerStart
  /\ interleave = IdleInterleave
  /\ backoff = IdleBackoff
  /\ LET JunkTexts ==
           {"advertisement", "sponsored", "promoted", "related articles",
            "recommended", "you may like", "newsletters", "Advertisement",
            "Newsletters", " sponsored ", "you may likeNewsletters", "text"}
     IN unit \in {[pc |-> "remove_junk_text_blocks", soup |-> d, run |-> 2,
                   first |-> d] :
                    d \in {Soup(Element("div", <<Element("p", <<Text(a)>>),
                                                 Element("span", <<Text(b)>>)>>)) :
                             a \in JunkTexts, b \in JunkTexts}}

SpecJunk == InitJunk /\ [][remove_junk_text_blocks]_vars

\* ------------------------------------------------- _is_probable_article_slug
\* The characters of a url path: a lower-case letter, an upper-case letter, a
\* digit (a character without case), the hyphen and the slash.  A string is a
\* sequence of characters.  The url paths the function is called with, the
\* empty one included:
UrlPaths == UNION {[1..n -> {"a", "A", "1", "-", "/"}] : n \in 0..MaxPathLen}

\* s.strip("/"): the slashes at both ends are taken away, no others
StripSlashes(s) ==
  LET keep == {i \in 1..Len(s) : s[i] # "/"}
  IN IF keep = {} THEN <<>>
     ELSE SubSeq(s, CHOOSE i \in keep : \A j \in keep : i <= j,
                    CHOOSE i \in keep : \A j \in keep : j <= i)

\* [p for p in normalized_path.split("/") if p]: the pieces between slashes
\* that are not empty
PathParts(normalized_path) ==
  LET RECURSIVE SplitFrom(_, _)
      SplitFrom(s, piece) ==
        IF s = <<>> THEN <<piece>>
        ELSE IF Head(s) = "/" THEN <<piece>> \o SplitFrom(Tail(s), <<>>)
        ELSE SplitFrom(Tail(s), Append(piece, Head(s)))
  IN SelectSeq(SplitFrom(normalized_path, <<>>), LAMBDA p : p # <<>>)

\* str.lower()
Lower(s) == [i \in 1..Len(s) |-> IF s[i] = "A" THEN "a" ELSE s[i]]

\* str.islower(): no upper-case character and at least one lower-case one
IsLower(s) ==
  /\ \A i \in 1..Len(s) : s[i] # "A"
  /\ \E i \in 1..Len(s) : s[i] = "a"

\* str.count("-")
HyphenCount(s) == Cardinality({i \in 1..Len(s) : s[i] = "-"})

\* SlugDetectionConfig; min_hyphen_ratio in hundredths (0.5 is 50)
SlugConfigs ==
  [min_slug_length : {1, 2},
   min_hyphen_count : {0, 1},
   min_path_depth : {1, 2},
   min_total_path_length : {0, 3},
   exclude_paths : {{}, {<<"a">>}},
   require_lowercase : BOOLEAN,
   min_hyphen_ratio : {0, 50}]

\* HtmlCleaner._is_probable_article_slug, clause by clause; the hyphen ratio
\* is compared without fractions
IsProbableArticleSlug(url_path, cfg) ==
  IF url_path = <<>> THEN FALSE
  ELSE LET normalized_path == StripSlashes(url_path)
           parts == PathParts(normalized_path)
           slug == parts[Len(parts)]
           hyphen_count == HyphenCount(slug)
           hyphen_ratio == IF Len(slug) > 0 THEN hyphen_count * 100 ELSE 0
       IN  IF normalized_path = <<>> THEN FALSE
           ELSE IF Len(parts) < cfg.min_path_depth THEN FALSE
           ELSE IF \E i \in 1..Len(parts) : Lower(parts[i]) \in cfg.exclude_paths
                THEN FALSE
           ELSE IF Len(normalized_path) < cfg.min_total_path_length THEN FALSE
           ELSE IF Len(slug) < cfg.min_slug_length THEN FALSE
           ELSE IF hyphen_count < cfg.min_hyphen_count THEN FALSE
           ELSE IF hyphen_ratio < cfg.min_hyphen_ratio * Len(slug) THEN FALSE
           ELSE IF cfg.require_lowercase /\ ~IsLower(slug) THEN FALSE
           ELSE TRUE

\* a call of the function: its arguments, and "None" until it has returned
InitSlug ==
  /\ url_queue = [u \in AllUrls |-> AbsentRow]
  /\ SchedulerStart
  /\ interleave = IdleInterleave
  /\ backoff = IdleBackoff
  /\ \E url_path \in UrlPaths, cfg \in SlugConfigs :
       unit = [pc |-> "is_probable_article_slug", url_path |-> url_path,
               cfg |-> cfg, result |-> "None"]

is_probable_article_slug ==
  /\ unit.pc = "is_probable_article_slug"
  /\ unit' = [unit EXCEPT !.pc = "returned",
                          !.result = IsProbableArticleSlug(unit.url_path, unit.cfg)]
  /\ UNCHANGED <<svars, interleave, backoff>>

SpecSlug == InitSlug /\ [][is_probable_article_slug]_vars

\* ---------------------------------------------------------------- claims
\* a worker holds its url in processing from the commit of status=processing
\* to the commit of the outcome
Holding == {"cooldown", "links", "l_write", "l_push", "p_done", "p_excl", "p_fail"}

Holds(w, u) == url[w] = u /\ pc[w] \in Holding

\* C1: for every URL, at most one worker at a time is between marking it
\* status=processing and writing its outcome
C1_AtMostOneWorkerProcessing ==
  \A u \in Urls : \A w1, w2 \in Workers :
    Holds(w1, u) /\ Holds(w2, u) => w1 = w2

\* C2: once a row's status is done, no step changes it to anything else
C2_DoneIsTerminal ==
  [][\A u \in Urls : IsDone(url_queue[u]) => IsDone(url_queue'[u])]_vars

\* C3: an admission whose lookup finds the row done is rejected: it goes no
\* further than the lookup, pushes nothing and leaves the table as it is
C3_DoneAdmissionRejected ==
  [][/\ \A c \in Callers :
          pc[c] = "idle" /\ (pc'[c] # "idle" \/ ret'[c] # ret[c])
          => /\ url_queue' = url_queue
             /\ queue' = queue
             /\ pc'[c] = "a_write" => ~IsDone(url_queue[url'[c]])
     /\ \A w \in Workers :
          pc[w] = "links" /\ IsDone(url_queue[Head(links[w])[1]])
            /\ (pc'[w] # pc[w] \/ links'[w] # links[w])
          => /\ url_queue' = url_queue
             /\ queue' = queue
             /\ pc'[w] # "l_write"]_vars

\* an enqueue_url for a done URL has returned False
C3_Witness ==
  \E c \in Callers : ret[c] = "already_done" /\ pc[c] = "idle"

\* C4: for every URL, at most one scrape result is ever persisted (with its
\* job marked completed)
C4_AtMostOneSuccessfulScrape ==
  \A u \in Urls : results[u] <= 1

\* C5: every step leaves every row's processing_count less than or equal to
\* its previous value
C5_ProcessingCountNonIncreasing ==
  [][\A u \in Urls :
       url_queue'[u].processing_count <= url_queue[u].processing_count]_vars

\* C5 as amended: every step leaves a row's processing_count less than or
\* equal to its previous value, except the update that marks the row done,
\* which sets it to 1
C5_NonIncreasingExceptDone ==
  [][\A u \in Urls :
       \/ url_queue'[u].processing_count <= url_queue[u].processing_count
       \/ IsDone(url_queue'[u]) /\ url_queue'[u].processing_count = 1]_vars

\* a failed scrape has lowered a row's processing_count
C5_Witness ==
  \E u \in Urls : url_queue[u].processing_count < 0 /\ url_queue[u].status = "failed"

\* C6: while a URL's processing_count is <= -5, no worker sets it to
\* status=processing and no worker invokes the scraper on it
C6_PoisonedNeverProcessed ==
  [][\A w \in Workers :
       /\ pc[w] = "p_mark" /\ pc'[w] = "cooldown"
          => ~IsPoisoned(url_queue[url[w]])
       /\ pc[w] = "cooldown" /\ pc'[w] # "cooldown"
          => ~IsPoisoned(url_queue[url[w]])]_vars

\* C7: the in-memory queue never holds more than max_queue_size items
C7_QueueBounded == qsize <= max_queue_size

\* the queue is full
C7_Witness == qsize = max_queue_size /\ \E it \in queue : it.data # NoneData

\* C8: enqueue_url that reaches the push while the queue is full returns
\* False (queue full) and leaves the queue as it is
C8_FullQueueRejects ==
  [][\A c \in Callers :
       pc[c] = "a_push" /\ QueueFull(queue) /\ pc'[c] # "a_push"
       => ret'[c] = "queue_full" /\ queue' = queue]_vars

\* an enqueue_url has been rejected by a queue that is still full
C8_Witness ==
  \E c \in Callers : ret[c] = "queue_full" /\ qsize = max_queue_size

\* C9: the item a dequeue removes precedes every item that stays in the
\* queue: none has a lower priority value, and none of equal priority has a
\* smaller insertion counter
C9_DequeueOrder ==
  [][Cardinality(queue') < Cardinality(queue)
     => \E it \in queue :
          /\ queue' = queue \ {it}
          /\ \A o \in queue' :
               \/ it.priority < o.priority
               \/ it.priority = o.priority /\ it.counter < o.counter]_vars

\* a worker has dequeued a URL while a later item of the same priority stays
\* in the queue
C9_Witness ==
  \E w \in Workers :
    /\ pc[w] = "p_select"
    /\ \E o \in queue : o.data # NoneData /\ o.priority = GetPriority(url[w])

\* C10: after stop() is called it returns, with every worker ended
C10_StopReturns == (spc # "idle") ~> (spc = "s_done")

\* C11: after stop() has flipped AsyncQueue.running to false, no worker
\* dequeues a URL item and starts processing it
C11_NoDequeueAfterStop ==
  [][\A w \in Workers :
       pc[w] = "get" /\ pc'[w] = "p_select" => qrunning]_vars

\* C12: no URL is the data of more than one item of the in-memory queue
C12_UrlQueuedAtMostOnce ==
  \A u \in Urls : Cardinality({it \in queue : it.data = u}) <= 1

\* C14: every change of a row's status is pending -> processing,
\* processing -> done, processing -> failed or failed -> pending
C14_OnlyListedStatusChanges ==
  [][\A u \in Urls :
       /\ url_queue[u].status # "absent"
       /\ url_queue'[u].status # url_queue[u].status
       => <<url_queue[u].status, url_queue'[u].status>> \in
            {<<"pending", "processing">>, <<"processing", "done">>,
             <<"processing", "failed">>, <<"failed", "pending">>}]_vars

\* C13: an admission that found no row and whose insert meets the row another
\* admission created in the meantime is a no-op: enqueue_url returns False
\* and the link loop goes on to the next link, nothing is pushed and the
\* winner's row stays as it is (one row per URL)
C13_LostInsertIsNoOp ==
  [][/\ \A c \in Callers :
          /\ pc[c] = "a_write" /\ pc'[c] # "a_write"
          /\ loaded[c].status = "absent" /\ url_queue[url[c]].status # "absent"
          => /\ url_queue' = url_queue
             /\ queue' = queue
             /\ pc'[c] = "idle" /\ ret'[c] = "duplicate"
     /\ \A w \in Workers :
          /\ pc[w] = "l_write" /\ (pc'[w] # "l_write" \/ links'[w] # links[w])
          /\ loaded[w].status = "absent"
          /\ url_queue[Head(links[w])[1]].status # "absent"
          => /\ url_queue' = url_queue
             /\ queue' = queue
             /\ pc'[w] # "l_push"
             /\ links'[w] = Tail(links[w])]_vars

\* an enqueue_url has lost the race for its URL against a link admission and
\* returned False
C13_Witness ==
  \E c \in Callers : ret[c] = "duplicate" /\ pc[c] = "idle"

\* C15: a fresh URL whose scrape always fails, one cycle at a time: the k-th
\* failed cycle leaves the row failed with processing_count = -k, k = 1..5
\* (k is the number of pushes so far); the enqueue_url after cycle k <= 4 sets
\* the row back to pending and pushes the URL; after the fifth, enqueue_url
\* is rejected and leaves the table and the queue as they are
C15_FiveFailuresPoison ==
  [][\A u \in FailingUrls :
       /\ (\E w \in Workers : pc[w] = "p_fail" /\ pc'[w] # "p_fail")
          => /\ url_queue'[u].status = "failed"
             /\ counter \in 1..5
             /\ url_queue'[u].processing_count = -counter
       /\ \A c \in Callers :
            /\ ( /\ pc[c] = "idle" /\ (pc'[c] # "idle" \/ ret'[c] # ret[c])
                 /\ url_queue[u].status = "failed" )
               => IF url_queue[u].processing_count > -5
                  THEN pc'[c] = "a_write"
                  ELSE /\ pc'[c] = "idle" /\ ReturnedFalse(c)'
                       /\ url_queue' = url_queue
                       /\ queue' = queue
            /\ (pc[c] = "a_write" /\ pc'[c] # "a_write" /\ url_queue[u].status = "failed")
               => /\ pc'[c] = "a_push"
                  /\ url_queue'[u] = [url_queue[u] EXCEPT !.status = "pending"]
            /\ (pc[c] = "a_push" /\ pc'[c] # "a_push")
               => /\ ret'[c] = "true"
                  /\ \E it \in queue' : it.data = u /\ it \notin queue]_vars

\* the fifth cycle has failed and an enqueue_url after it has been rejected
C15_Witness ==
  \E u \in FailingUrls, c \in Callers :
    /\ url_queue[u].status = "failed" /\ url_queue[u].processing_count = -5
    /\ counter = 5
    /\ pc[c] = "idle" /\ ret[c] = "poisoned"

\* C16: when start() has run after a stop(), every URL whose row is pending
\* is the data of an item of the in-memory queue
C16_PendingRowsQueuedAfterRestart ==
  [][~running /\ running'
     => \A u \in Urls :
          url_queue'[u].status = "pending" => \E it \in queue' : it.data = u]_vars

\* C17: a URL that the URL filter or the priority policy excludes has no row
\* in url_queue and is the data of no item of the in-memory queue, whether it
\* came through enqueue_url or as a link of a scraped page
C17_ExcludedNeverAdmitted ==
  \A u \in {ExcludedUrl, PolicyExcludedUrl} :
    /\ url_queue[u].status = "absent"
    /\ \A it \in queue : it.data # u
    /\ \A p \in Procs : pc[p] \in {"a_write", "a_push", "l_write", "l_push"}
                        => (IF p \in Workers THEN Head(links[p])[1] ELSE url[p]) # u

\* enqueue_url has refused a URL the policy excludes while a worker's link
\* loop stands at a link the URL filter excludes
C17_Witness ==
  /\ \E c \in Callers : ret[c] = "policy_excluded" /\ pc[c] = "idle"
  /\ \E w \in Workers :
       /\ pc[w] = "links" /\ Head(links[w])[1] = ExcludedUrl
       /\ running /\ qsize < max_queue_size

\* C18: in the result of _interleave_links_by_domain, for every priority
\* class with D distinct hosts, every window of k >= D consecutive emissions
\* of the class holds a link of every host of the class
C18_EveryWindowCoversHosts ==
  interleave.pc = "returned" =>
    \A p \in InterleavePriorities :
      LET inp == PriorityClass(interleave.links_with_priority, p)
          out == PriorityClass(interleave.ordered, p)
          D == Cardinality(Hosts(inp))
      IN \A i \in 1..Len(out), k \in 1..Len(out) :
           k >= D /\ i + k - 1 <= Len(out)
           => {Netloc(out[j][1]) : j \in i..(i + k - 1)} = Hosts(inp)

\* C18 as amended: the same for the windows that lie within the first D * m
\* emissions of the class, m being the smallest number of links a host of
\* the class has
C18_WindowsOfFullRoundsCoverHosts ==
  interleave.pc = "returned" =>
    \A p \in InterleavePriorities :
      LET inp == PriorityClass(interleave.links_with_priority, p)
          out == PriorityClass(interleave.ordered, p)
          D == Cardinality(Hosts(inp))
      IN \A m \in 1..Len(inp) :
           (\A h \in Hosts(inp) : LinksOfHost(inp, h) >= m)
           => /\ Len(out) >= D * m
              /\ \A i \in 1..Len(out), k \in 1..Len(out) :
                   k >= D /\ i + k - 1 <= D * m
                   => {Netloc(out[j][1]) : j \in i..(i + k - 1)} = Hosts(inp)

\* a class of two hosts with two links each has been interleaved
C18_Witness ==
  /\ interleave.pc = "returned"
  /\ \E p \in InterleavePriorities :
       LET inp == PriorityClass(interleave.links_with_priority, p)
       IN /\ Cardinality(Hosts(inp)) = 2
          /\ \A h \in Hosts(inp) : LinksOfHost(inp, h) = 2

\* C19: the first D emissions of every priority class with D distinct hosts
\* hold exactly one link of each host of the class
C19_FirstRoundOnePerHost ==
  interleave.pc = "returned" =>
    \A p \in InterleavePriorities :
      LET inp == PriorityClass(interleave.links_with_priority, p)
          out == PriorityClass(interleave.ordered, p)
          D == Cardinality(Hosts(inp))
      IN /\ Len(out) >= D
         /\ {Netloc(out[j][1]) : j \in 1..D} = Hosts(inp)

\* a class of two hosts, one with more links than the other and listed
\* first, has been interleaved
C19_Witness ==
  /\ interleave.pc = "returned"
  /\ \E p \in InterleavePriorities :
       LET inp == PriorityClass(interleave.links_with_priority, p)
       IN /\ Cardinality(Hosts(inp)) = 2
          /\ Len(inp) >= 3
          /\ Netloc(inp[1][1]) = Netloc(inp[2][1])

\* C20: while func has raised a retryable error on every call,
\* ExponentialBackoffHandler.handle calls it max_retries + 1 times at most,
\* sleeps once after each call but the last, and ends by raising the
\* retryable error of the last call, after max_retries + 1 calls and
\* max_retries sleeps
C20_RetriesThenReraises ==
  backoff.pc # "idle" /\ backoff.retryable = backoff.calls
  => /\ backoff.calls <= backoff.max_retries + 1
     /\ backoff.pc = "call" => Len(backoff.slept) = backoff.calls
     /\ backoff.pc = "sleep"
        => /\ backoff.calls <= backoff.max_retries
           /\ Len(backoff.slept) = backoff.calls - 1
     /\ backoff.pc \in {"raised", "returned"}
        => /\ backoff.pc = "raised"
           /\ backoff.calls = backoff.max_retries + 1
           /\ Len(backoff.slept) = backoff.max_retries
           /\ backoff.raised.kind = "retryable"
           /\ backoff.raised.call = backoff.calls
           /\ backoff.raised = backoff.last_exception

\* a handler with max_retries = 2 has raised after three failed calls
C20_Witness ==
  /\ backoff.pc = "raised" /\ backoff.raised.kind = "retryable"
  /\ backoff.max_retries = 2
  /\ backoff.calls = 3
  /\ Len(backoff.slept) = 2

\* ------------------------------------------------------------------ C27
\* C27: every scrape attempt leaves one scrape_jobs row in a terminal status:
\* when the attempt is about to write its url_queue row, the committed job is
\* completed if the result was persisted and failed if the content filter
\* excluded the page or the scrape raised
C27_AttemptLeavesTerminalJob ==
  \A w \in Workers :
    /\ pc[w] = "p_done" => work[w].committed.status = "completed"
    /\ pc[w] \in {"p_excl", "p_fail"} => work[w].committed.status = "failed"

\* ------------------------------------------------------------------ C28
\* C28: the failure update of an attempt whose scrape raised leaves the URL's
\* row with processing_count one less than the attempt read it, status
\* failed, and changes no other row
C28_FailureDecrementsOnce ==
  [][\A w \in Workers :
       (pc[w] = "p_fail" /\ pc'[w] # "p_fail") =>
          /\ url_queue'[url[w]].processing_count = work[w].processing_count - 1
          /\ url_queue'[url[w]].status = "failed"
          /\ \A v \in AllUrls \ {url[w]} : url_queue'[v] = url_queue[v]]_vars

\* ------------------------------------------------------------------ C29
\* C29: in every reachable state every url_queue row with status done has
\* processing_count 1
C29_DoneRowsCountOne ==
  \A u \in AllUrls :
    url_queue[u].status = "done" => url_queue[u].processing_count = 1

\* a row is done while another attempt on the same URL has raised and is
\* about to write its failure update
C29_Witness ==
  \E u \in Urls :
    /\ url_queue[u].status = "done"
    /\ \E w \in Workers : url[w] = u /\ pc[w] = "p_fail"

\* ------------------------------------------------------------------ C30
\* C30: when the content filter excludes the fetched page the worker commits
\* the job as failed with the reason "Excluded by content filter", then sets
\* the row to done with processing_count 1; neither step persists a scrape
\* result, touches another row or puts a link into the queue
C30_ContentFilterBranch ==
  [][\A w \in Workers :
       /\ (pc[w] = "cooldown" /\ pc'[w] = "p_excl") =>
             /\ work'[w].committed =
                  [status |-> "failed", error_message |-> ExcludedReason]
             /\ UNCHANGED <<url_queue, results, queue, links>>
       /\ (pc[w] = "p_excl" /\ pc'[w] # "p_excl") =>
             /\ url_queue'[url[w]].status = "done"
             /\ url_queue'[url[w]].processing_count = 1
             /\ \A v \in AllUrls \ {url[w]} : url_queue'[v] = url_queue[v]
             /\ UNCHANGED <<results, queue, links>>]_vars

\* a worker has taken the content filter branch and committed its job
C30_Witness ==
  \E w \in Workers :
    /\ pc[w] = "p_excl"
    /\ work[w].committed.status = "failed"
    /\ url_queue[url[w]].status = "processing"

\* ------------------------------------------------------------------ C21
\* C21: when FallbackHttpClient.fetch ends, the browser client was invoked
\* exactly if the primary's fetch ended in an error and a browser client is
\* configured; it was not invoked when the primary succeeded; and when the
\* primary failed with no browser configured, the error that reaches the
\* caller is the primary's error
C21_BrowserIffPrimaryFailed ==
  unit.pc \in {"returned", "raised"} =>
    /\ (unit.browser_calls > 0) <=>
         (unit.raised.kind # "none" /\ unit.fallback_configured)
    /\ unit.raised.kind = "none" => unit.browser_calls = 0
    /\ (unit.raised.kind # "none" /\ ~unit.fallback_configured) =>
         unit.outcome = unit.raised

\* ------------------------------------------------------------------ C22
\* C22: when the direct client received a response with status s >= 400, the
\* error that leaves _fetch_internal carries retry_after 2 s if s < 500 and
\* 10 s if s >= 500; only transport errors carry retry_after 5 s
C22_RetryAfterByStatus ==
  (unit.pc # "idle" /\ unit.raised.kind # "none") =>
    /\ (unit.response.transport = "response" /\ unit.response.status_code >= 400) =>
         unit.raised.retry_after =
           (IF unit.response.status_code < 500 THEN 2000 ELSE 10000)
    /\ unit.raised.retry_after = 5000 => unit.response.transport # "response"

\* ------------------------------------------------------------------ C23
\* C23: across any interleaving of concurrent fetches through one
\* BrowserClient at most one browser connection and at most one browser
\* context are ever created, and a fetch that has ended has left no page open
C23_OneBrowserOneContextPagesClosed ==
  /\ unit.connections <= 1
  /\ unit.contexts <= 1
  /\ \A f \in Workers : unit.pc[f] = "done" => unit.page[f] # "open"

\* ------------------------------------------------------------------ C24
\* C24: the cleaning pipeline is idempotent: the pipeline applied to its own
\* result yields a document equal to that result
C24_PipelineIdempotent ==
  unit.pc = "done" => GetHtml(unit.soup) = unit.first

\* ------------------------------------------------------------------ C25
\* C25: when collapse_wrappers followed by deep_prune_empty has ended, no div
\* has exactly one element child and no div, span or section is empty, and a
\* chain of single-child div wrappers around <p>text</p> has become that
\* <p>text</p>
C25_NoWrapperNoEmptyAfterCollapsePrune ==
  LET RECURSIVE Nodes(_)
      Nodes(n) == {n} \cup UNION {Nodes(n.kids[i]) : i \in 1..Len(n.kids)}
  IN unit.pc \in {"get_html", "done"} =>
    /\ \A n \in Nodes(unit.soup) :
         /\ n.tag = "div" => Len(ElementKids(n)) # 1
         /\ n.tag \in {"div", "span", "section"} => ~IsEmptyTag(n)
    /\ (\E k \in 1..MaxDepth : unit.first = Soup(Wrapped(k))) =>
         unit.soup = Soup(Wrapped(0))

\* ------------------------------------------------------------------ C26
\* C26: _is_probable_article_slug returns true exactly when the path has at
\* least min_path_depth parts, none of them lower-cased is in exclude_paths,
\* the normalized path has at least min_total_path_length characters, the last
\* part has at least min_slug_length characters, at least min_hyphen_count
\* hyphens and a hyphen ratio of at least min_hyphen_ratio, and, when
\* require_lowercase, the last part equals its own lower-casing
C26_SlugIffAllConditions ==
  unit.pc = "returned" =>
    LET cfg == unit.cfg
        normalized_path == StripSlashes(unit.url_path)
        parts == PathParts(normalized_path)
        slug == parts[Len(parts)]
    IN  (unit.result = TRUE) =
          (/\ Len(parts) >= cfg.min_path_depth
           /\ \A i \in 1..Len(parts) : Lower(parts[i]) \notin cfg.exclude_paths
           /\ Len(normalized_path) >= cfg.min_total_path_length
           /\ Len(slug) >= cfg.min_slug_length
           /\ HyphenCount(slug) >= cfg.min_hyphen_count
           /\ HyphenCount(slug) * 100 >= cfg.min_hyphen_ratio * Len(slug)
           /\ cfg.require_lowercase => slug = Lower(slug))

\* ------------------------------------------------------------------ C31
\* C31: a worker whose re-read of the row finds status=done or
\* processing_count <= -5 drops the item (the table stays as it is, no job
\* row is created, the scraper is not invoked, the worker is back at its
\* loop); a worker whose re-read finds any other row goes on to the commit of
\* status=processing, after which the row is processing, and only then
\* reaches the scraper
C31_ReReadGuard ==
  [][\A w \in Workers :
       /\ pc[w] = "p_select" /\ pc'[w] # "p_select"
          => IF IsDone(url_queue[url[w]]) \/ IsPoisoned(url_queue[url[w]])
             THEN /\ pc'[w] = "check"
                  /\ url_queue' = url_queue
                  /\ work'[w] = NoWork
                  /\ results' = results
             ELSE pc'[w] = "p_mark"
       /\ pc[w] = "p_mark" /\ pc'[w] # "p_mark"
          => pc'[w] = "cooldown" /\ url_queue'[url[w]].status = "processing"
       /\ pc'[w] = "cooldown" /\ pc[w] # "cooldown" => pc[w] = "p_mark"]_vars

\* ------------------------------------------------------------------ C32
\* C32: in ExponentialBackoffHandler.handle, the wait before attempt k + 1
\* (k = 1..max_retries, the number of the failed call) is
\* max(min(initial_delay * backoff_factor^(k - 1), max_delay), retry_after of
\* the k-th error), a missing retry_after counting as 0, and after every wait
\* the wait is recorded as slept and the delay is multiplied by backoff_factor
C32_WaitBeforeRetry ==
  [][LET RECURSIVE Power(_, _)
         Power(a, n) == IF n = 0 THEN 1 ELSE a * Power(a, n - 1)
         k == backoff'.calls
     IN /\ backoff'.pc = "sleep"
           => /\ k \in 1..backoff'.max_retries
              /\ backoff'.wait_time =
                   Max(Min(backoff'.initial_delay * Power(backoff_factor, k - 1),
                           backoff'.max_delay),
                       backoff'.last_exception.retry_after)
        /\ backoff.pc = "sleep" /\ backoff'.pc # "sleep"
           => /\ backoff'.slept = Append(backoff.slept, backoff.wait_time)
              /\ backoff'.delay = backoff.delay * backoff_factor]_vars

\* the second wait of a handler was set by the retry_after of the second
\* error, above the capped delay; the first wait was the uncapped delay
C32_Witness ==
  /\ backoff.pc = "sleep"
  /\ backoff.calls = 2
  /\ backoff.slept = <<backoff.initial_delay>>
  /\ backoff.delay = 2 * backoff.initial_delay
  /\ backoff.last_exception.retry_after = 5
  /\ backoff.wait_time = 5
  /\ backoff.max_delay = 3

\* ------------------------------------------------------------------ C33
\* C33: remove_junk_text_blocks deletes an element exactly when its trimmed,
\* lower-cased text is one of advertisement, sponsored, promoted, related
\* articles, recommended, you may like, newsletters: of the <p> and the <span>
\* of the page, each is gone after the step if its text is one of the seven
\* phrases and is still there if it is not
C33_JunkPhrasesDeleted ==
  unit.pc = "remove_all_classes_and_ids" /\ unit.run = 2 =>
    LET Phrases == {"advertisement", "sponsored", "promoted", "related articles",
                    "recommended", "you may like", "newsletters"}
        before == unit.first.kids[1].kids[1].kids
        body == unit.soup.kids[1].kids
        after == IF body = <<>> THEN <<>> ELSE body[1].kids
    IN \A i \in 1..Len(before) :
         (\E j \in 1..Len(after) : after[j] = before[i])
         = (LowerText(GetText(before[i])) \notin Phrases)

\* ------------------------------------------------------------------ C34
\* C34: under the chain Cooldown -> ExponentialBackoff, while every call of
\* the function raises a retryable error the function is called at most
\* 2 * (max_retries + 1) times, the one cooldown sleep comes after the first
\* max_retries + 1 calls, and the error reaches the caller after exactly
\* 2 * (max_retries + 1) calls and one cooldown; an error that is not
\* retryable reaches the caller from the call that raised it, no call
\* following it
C34_DefaultChainCalls ==
  LET calls == unit.calls + backoff.calls
      retryable == unit.retryable + backoff.retryable
  IN unit.pc \in {"try_next", "raised", "returned"} =>
       /\ retryable = calls
          => /\ calls <= 2 * (backoff.max_retries + 1)
             /\ unit.cooldowns = unit.round - 1
             /\ unit.round = 2 => unit.calls = backoff.max_retries + 1
             /\ unit.pc # "returned"
             /\ unit.pc = "raised"
                => /\ calls = 2 * (backoff.max_retries + 1)
                   /\ unit.cooldowns = 1
                   /\ backoff.raised.kind = "retryable"
       /\ backoff.raised.kind = "other"
          => /\ backoff.pc = "raised"
             /\ backoff.raised.call = backoff.calls
             /\ retryable = calls - 1

\* with max_retries = 2 the retryable error has reached the caller after six
\* calls and one cooldown
C34_Witness ==
  /\ unit.pc = "raised"
  /\ backoff.max_retries = 2
  /\ unit.calls + backoff.calls = 6
  /\ unit.retryable + backoff.retryable = 6
  /\ unit.cooldowns = 1

\* ------------------------------------------------------------------ C35
\* C35: a URL whose row a worker has set to status=processing eventually has
\* a row that is done or failed
C35_ProcessingEventuallyLeaves ==
  \A u \in Urls :
    (\E w \in Workers : pc[w] = "cooldown" /\ url[w] = u
                        /\ url_queue[u].status = "processing")
    ~> (url_queue[u].status \in {"done", "failed"})

\* ------------------------------------------------------------------ C36
\* C36: a call of enqueue_url that returns False has written nothing to
\* url_queue: the step that returns False changes no row, and the call has
\* not come past a commit that inserted its row or changed a column of it
C36_FalseLeavesTable ==
  [][\A c \in Callers :
       ret'[c] \notin {"none", "true"} /\ pc'[c] = "idle"
       /\ (pc[c] # "idle" \/ ret[c] # ret'[c])
       => /\ url_queue' = url_queue
          /\ pc[c] = "a_push"
             => /\ loaded[c].status = "pending"
                /\ loaded[c].priority = prio[c]]_vars

\* ------------------------------------------------------------------ C37
\* C37: every URL item of the in-memory queue has a row in url_queue, and so
\* has the URL a worker has dequeued and is about to re-read: the branch
\* "URL not found in queue" of _process_url is never taken
C37_QueuedUrlHasRow ==
  /\ \A o \in queue : o.data # NoneData => url_queue[o.data].status # "absent"
  /\ \A w \in Workers :
       pc[w] = "p_select" => url_queue[url[w]].status # "absent"

\* a URL item is in the queue while a worker is about to re-read the row of
\* another item it dequeued
C37_Witness ==
  /\ \E o \in queue : o.data # NoneData
  /\ \E w \in Workers : pc[w] = "p_select"

\* ------------------------------------------------------------------ C38
\* C38: the list _interleave_links_by_domain returns holds every (link,
\* priority) tuple as often as its input does and no other, its priorities
\* ascend, and the links of one host and priority are in the order of the
\* input
C38_InterleaveIsOrderedPermutation ==
  interleave.pc = "returned" =>
    LET inp == interleave.links_with_priority
        out == interleave.ordered
        Count(lp, e) == Cardinality({i \in 1..Len(lp) : lp[i] = e})
    IN /\ Len(out) = Len(inp)
       /\ \A l \in InterleaveLinks, p \in InterleavePriorities :
            Count(out, <<l, p>>) = Count(inp, <<l, p>>)
       /\ \A i \in 1..Len(out) : out[i] \in InterleaveLinks \X InterleavePriorities
       /\ \A i \in 1..(Len(out) - 1) : out[i][2] <= out[i + 1][2]
       /\ \A p \in InterleavePriorities, h \in Hosts(inp) :
            SelectSeq(out, LAMBDA e : e[2] = p /\ Netloc(e[1]) = h)
            = SelectSeq(inp, LAMBDA e : e[2] = p /\ Netloc(e[1]) = h)

\* the input listed a link of the later priority first and two different
\* links of one host and priority, the larger one first
C38_Witness ==
  /\ interleave.pc = "returned"
  /\ LET inp == interleave.links_with_priority
     IN /\ Len(inp) >= 3
        /\ inp[1][2] > inp[2][2]
        /\ inp[2][2] = inp[3][2]
        /\ Netloc(inp[2][1]) = Netloc(inp[3][1])
        /\ inp[2][1] > inp[3][1]

\* ------------------------------------------------------------------ C39
\* C39: once no URL item is in the queue or with a worker, the count of
\* unfinished tasks comes down to zero, so that wait_complete() returns
C39_WaitCompleteReturns ==
  (/\ \A o \in queue : o.data = NoneData
   /\ \A w \in Workers : pc[w] \in {"check", "get", "stopped"})
  ~> (unfinished_tasks = 0)

====
